---- MODULE Spec2Model ----
(***************************************************************************)
(* Model of the byteStore chatbot Edge Function                            *)
(* (supabase/functions/chatbot/index.ts), of the SQL rate limiter it calls *)
(* (check_and_increment_chat_rate_limit on public.chat_rate_limits), and   *)
(* of the browser's cart (js/cart.js) and chat widget (js/chatbot.js).     *)
(*                                                                         *)
(* SpecRateLimit : concurrent transactions running the plpgsql function.   *)
(* Spec          : one request through the serve handler's agent loop.     *)
(* SpecGroqChat  : one call of groqChat over the configured keys.          *)
(* SpecTools     : one call of a tool executor, or of expandQuery.         *)
(* SpecSessions  : the log writes of requests served side by side.         *)
(* SpecContext   : the handler up to its first model round-trip.           *)
(* SpecAdmission : admission of a request by a caller with a used window.  *)
(* SpecAgent     : one request with the groqChat calls of its agent loop   *)
(*                 (SpecAgentLive: every awaited call returns).            *)
(* SpecPriceRange: get_price_range while the catalog is edited.            *)
(* SpecCart      : calls of the cart functions.                            *)
(* SpecWidget    : the chat widget's listeners and pending requests.       *)
(***************************************************************************)
EXTENDS Integers, Sequences, FiniteSets, TLC

(***************************************************************************)
(* Bounds of the model.                                                    *)
(***************************************************************************)
\* the wall clock runs over 0..MaxTime (seconds)
MaxTime == 2
\* p_window_seconds is drawn from 1..MaxWindowSeconds (the handler passes 600)
MaxWindowSeconds == 2
\* p_max_count is drawn from 1..MaxMaxCount (the handler passes 20)
MaxMaxCount == 2
\* the handler's clock (Date.now()) has TicksPerSecond ticks to the second
TicksPerSecond == 2
\* Date.now() is read at most MaxLatency ticks after the rpc's now()
MaxLatency == 3

\* identities (auth.users ids) and the RPC invocations (one transaction each)
\* (identities are interchangeable: only the last call may come from "u2")
Users == {"u1", "u2"}
\* (transactions are started in this order; they may finish in any order)
CallOrder == <<"t1", "t2", "t3", "t4">>
Calls == {CallOrder[i] : i \in 1..Len(CallOrder)}
NoCall == "none"

\* SQL NULL for a timestamptz / int local of the function
NullValue == -1

VARIABLES
    \* ---- rate limiter (SQL) ----
    clock,              \* wall-clock time in seconds
    p_window_seconds,   \* policy argument of every call
    p_max_count,        \* policy argument of every call
    chat_rate_limits,   \* the table: a set of rows
    uncommittedBy,      \* user -> call whose inserted row is not committed yet
    lockHolder,         \* user -> call holding the row lock (FOR UPDATE / own insert)
    rlpc,               \* call -> position in the function
    p_user_id,          \* call -> identity argument
    v_now,              \* call -> now() of its transaction
    v_window_start,     \* call -> local
    v_count,            \* call -> local
    rl_result,          \* call -> returned row (allowed, remaining, reset_at)
    \* ---- serve handler (one admitted request) ----
    pc,                 \* position of the handler
    history,            \* body.history as sent by the caller
    agentMessages,      \* the context sent to the model
    iter,               \* loop variable i of the agent loop
    modelCalls,         \* number of groqChat calls made by this request
    assistantMsg,       \* completion.choices[0].message of the last round-trip
    lastProducts,       \* products of the last non-empty show_products result
    toolsUsedInResponse,\* tool calls of this turn: name, args, result
    chat_messages,      \* rows inserted into public.chat_messages, in order
    sessionTouched,     \* chat_sessions.updated_at was written by this request
    dbFailures,         \* catalog queries that failed during this request
    request,            \* the HTTP request being served
    chat_sessions,      \* sessions created by this request
    logWrites,          \* the writes issued to the conversation log, with their outcome
    response,           \* the HTTP response (status 0: none yet)
    rl,                 \* the row answered by the rate-limit rpc
    dateNow,            \* Date.now() read when the request is rejected (ticks)
    \* ---- groqChat (one call) ----
    GROQ_API_KEYS,      \* the configured keys, in rotation order
    gpc,                \* position of groqChat
    keyIndex,           \* loop variable i of the key loop (from 1)
    repairAttemptedForThisKey,
    lastErr,            \* text of the last error
    fetches,            \* the requests sent to the provider, with their outcome
    groqResult,         \* what groqChat returned or threw
    payload,            \* the payload object groqChat was called with
    providerRequests,   \* requests sent to the provider while serving the request
    \* ---- tool executors and expandQuery (one call) ----
    productsTable,      \* public.products, in table order
    tpc,                \* position of the call
    toolArgs,           \* the args object handed to the executor
    toolReturn,         \* what the executor returned or threw
    catalogQueries,     \* the queries the executor sent to the catalog
    expansions,         \* an input of expandQuery and its successive expansions
    \* ---- the conversation log under concurrent requests ----
    sessionsTable,      \* public.chat_sessions: rows id, user_id, touched
    messagesTable,      \* public.chat_messages, in insertion order
    spc,                \* request -> position of its handler
    caller,             \* request -> user.id of its token
    sessionId,          \* request -> body.session_id ("" when not supplied)
    sessionOf,          \* request -> currentSessionId
    returned,           \* request -> status and session_id of its response
    \* ---- the browser: cart (js/cart.js) and chat widget (js/chatbot.js) ----
    cart,               \* localStorage "cart": items with id, stock, quantity
    lastCall,           \* the last cart function called and how it ended
    inputValue,         \* value of the chat input (0: empty, n: the n-th text typed)
    sendBtnDisabled,    \* sendBtn.disabled
    inFlight,           \* the messages whose fetch is awaited
    chatHistory,        \* localStorage chat history: role and content
    typed               \* texts typed so far

rlvars == <<clock, p_window_seconds, p_max_count, chat_rate_limits, uncommittedBy,
            lockHolder, rlpc, p_user_id, v_now, v_window_start, v_count, rl_result>>

reqvars == <<pc, history, agentMessages, iter, modelCalls, assistantMsg, lastProducts,
             toolsUsedInResponse, chat_messages, sessionTouched, dbFailures,
             request, chat_sessions, logWrites, response, rl, dateNow>>

gqvars == <<GROQ_API_KEYS, gpc, keyIndex, repairAttemptedForThisKey, lastErr, fetches,
            groqResult, payload, providerRequests>>

toolvars == <<productsTable, tpc, toolArgs, toolReturn, catalogQueries, expansions>>

sessvars == <<sessionsTable, messagesTable, spc, caller, sessionId, sessionOf, returned>>

cartvars == <<cart, lastCall>>

chatvars == <<inputValue, sendBtnDisabled, inFlight, chatHistory, typed>>

clientvars == <<cartvars, chatvars>>

vars == <<rlvars, reqvars, gqvars, toolvars, sessvars, clientvars>>

NoResult == [allowed |-> FALSE, remaining |-> NullValue, reset_at |-> NullValue]

\* no RPC is in progress
NoCallInProgress ==
    /\ uncommittedBy = [u \in Users |-> NoCall]
    /\ lockHolder = [u \in Users |-> NoCall]
    /\ rlpc = [c \in Calls |-> "idle"]
    /\ p_user_id = [c \in Calls |-> "u1"]
    /\ v_now = [c \in Calls |-> NullValue]
    /\ v_window_start = [c \in Calls |-> NullValue]
    /\ v_count = [c \in Calls |-> NullValue]
    /\ rl_result = [c \in Calls |-> NoResult]

\* no RPC has been made: the table is empty
RateLimiterAtRest ==
    /\ clock = 0
    /\ chat_rate_limits = {}
    /\ NoCallInProgress

\* no request is being served
HandlerAtRest ==
    /\ pc = "idle"
    /\ history = <<>>
    /\ agentMessages = <<>>
    /\ iter = 0
    /\ modelCalls = 0
    /\ assistantMsg = [role |-> "assistant", content |-> <<>>]
    /\ lastProducts = <<>>
    /\ toolsUsedInResponse = <<>>
    /\ chat_messages = <<>>
    /\ sessionTouched = FALSE
    /\ request = [jwt |-> "", body |-> [parses |-> FALSE]]
    /\ chat_sessions = {}
    /\ dbFailures = 0
    /\ logWrites = <<>>
    /\ response = [status |-> 0]
    /\ rl = NoResult
    /\ dateNow = 0

\* no groqChat call in progress
NoError == [kind |-> "null"]
GroqAtRest ==
    /\ GROQ_API_KEYS = <<>>
    /\ gpc = "idle"
    /\ keyIndex = 0
    /\ repairAttemptedForThisKey = FALSE
    /\ lastErr = NoError
    /\ fetches = <<>>
    /\ groqResult = [threw |-> FALSE, completion |-> NoError]
    /\ payload = [messages |-> <<>>]
    /\ providerRequests = 0

\* no executor call in progress
ToolsAtRest ==
    /\ productsTable = <<>>
    /\ tpc = "idle"
    /\ toolArgs = [t |-> "null"]
    /\ toolReturn = [threw |-> FALSE, tool |-> "none"]
    /\ catalogQueries = <<>>
    /\ expansions = <<>>

\* the requests served side by side
HandlerRequests == {"r1", "r2"}

\* the cart is empty and the chat widget has not been used
ClientAtRest ==
    /\ cart = <<>>
    /\ lastCall = [op |-> "none"]
    /\ inputValue = 0
    /\ sendBtnDisabled = FALSE
    /\ inFlight = {}
    /\ chatHistory = <<>>
    /\ typed = 0

\* no request is being served and both tables are empty
SessionsAtRest ==
    /\ sessionsTable = {}
    /\ messagesTable = <<>>
    /\ spc = [r \in HandlerRequests |-> "idle"]
    /\ caller = [r \in HandlerRequests |-> "u1"]
    /\ sessionId = [r \in HandlerRequests |-> ""]
    /\ sessionOf = [r \in HandlerRequests |-> ""]
    /\ returned = [r \in HandlerRequests |-> [status |-> 0]]

(***************************************************************************)
(* check_and_increment_chat_rate_limit                                     *)
(***************************************************************************)

RowsOf(u) == {r \in chat_rate_limits : r.user_id = u}

\* mutant: the table has no key on user_id, every call inserts its own row
HasConflict_NoKey(u) == FALSE

\* primary key (user_id) + ON CONFLICT (user_id) DO NOTHING:
\* the insert is skipped when a row with this key exists
HasConflict(u) == RowsOf(u) # {}

\* an insert that meets another transaction's uncommitted row with the same
\* key waits for that transaction to finish
InsertMayProceed(c, u) == uncommittedBy[u] \in {NoCall, c}

\* mutant: a plain SELECT, without FOR UPDATE
RowLockAvailable_NoLock(c, u) == TRUE

\* SELECT ... FOR UPDATE waits while another transaction holds the row lock
RowLockAvailable(c, u) == lockHolder[u] \in {NoCall, c}

\* mutant: the window is reset only strictly after it has elapsed
WindowExpired_Strict(now, ws) == now - ws > p_window_seconds

\* "Reset window if expired"
WindowExpired(now, ws) == now - ws >= p_window_seconds

\* mutant: off by one, a full window admits one more call
OverLimit_OffByOne(cnt) == cnt > p_max_count

\* "if v_count >= p_max_count then" : the call is rejected
OverLimit(cnt) == cnt >= p_max_count

Greatest(a, b) == IF a >= b THEN a ELSE b

\* mutant: remaining computed from the count before the increment
Remaining_BeforeIncrement(cnt) == Greatest(0, p_max_count - cnt + 1)

\* remaining := greatest(0, p_max_count - v_count)
Remaining(cnt) == Greatest(0, p_max_count - cnt)

\* the whole function run as one transaction with no other in progress:
\* the table it leaves and the row it returns
check_and_increment_chat_rate_limit(u, now) ==
    LET fresh == ~HasConflict(u)
        ws0 == IF fresh THEN now ELSE (CHOOSE r \in RowsOf(u) : TRUE).window_start
        ct0 == IF fresh THEN 0 ELSE (CHOOSE r \in RowsOf(u) : TRUE).count
        exp == WindowExpired(now, ws0)
        ws1 == IF exp THEN now ELSE ws0
        ct1 == IF exp THEN 0 ELSE ct0
        others == {r \in chat_rate_limits : r.user_id # u}
    IN IF OverLimit(ct1)
         THEN [table  |-> others \cup
                          {[user_id |-> u, window_start |-> ws0, count |-> ct0,
                            updated_at |-> IF fresh THEN now
                                           ELSE (CHOOSE r \in RowsOf(u) : TRUE).updated_at]},
               result |-> [allowed |-> FALSE, remaining |-> 0,
                           reset_at |-> ws1 + p_window_seconds]]
         ELSE [table  |-> others \cup
                          {[user_id |-> u, window_start |-> ws1, count |-> ct1 + 1,
                            updated_at |-> now]},
               result |-> [allowed |-> TRUE, remaining |-> Remaining(ct1 + 1),
                           reset_at |-> ws1 + p_window_seconds]]

InitRateLimit ==
    /\ p_window_seconds \in 1..MaxWindowSeconds
    /\ p_max_count \in 1..MaxMaxCount
    /\ RateLimiterAtRest
    /\ HandlerAtRest
    /\ GroqAtRest
    /\ ToolsAtRest
    /\ SessionsAtRest
    /\ ClientAtRest

\* time passes
Tick ==
    /\ clock < MaxTime
    /\ clock' = clock + 1
    /\ UNCHANGED <<p_window_seconds, p_max_count, chat_rate_limits, uncommittedBy,
                   lockHolder, rlpc, p_user_id, v_now, v_window_start, v_count, rl_result>>
    /\ UNCHANGED reqvars
    /\ UNCHANGED gqvars
    /\ UNCHANGED <<toolvars, sessvars, clientvars>>

\* the RPC starts a transaction: v_now := now() is the transaction's start time
BeginCall(c, u) ==
    /\ rlpc[c] = "idle"
    /\ \A i, j \in 1..Len(CallOrder) :
          (CallOrder[j] = c /\ i < j) => rlpc[CallOrder[i]] # "idle"
    /\ u = "u2" => c = CallOrder[Len(CallOrder)]
    /\ p_user_id' = [p_user_id EXCEPT ![c] = u]
    /\ v_now' = [v_now EXCEPT ![c] = clock]
    /\ rlpc' = [rlpc EXCEPT ![c] = "insert"]
    /\ UNCHANGED <<clock, p_window_seconds, p_max_count, chat_rate_limits, uncommittedBy,
                   lockHolder, v_window_start, v_count, rl_result>>
    /\ UNCHANGED reqvars
    /\ UNCHANGED gqvars
    /\ UNCHANGED <<toolvars, sessvars, clientvars>>

\* insert into chat_rate_limits ... on conflict (user_id) do nothing
InsertOnConflictDoNothing(c) ==
    LET u == p_user_id[c] IN
    /\ rlpc[c] = "insert"
    /\ InsertMayProceed(c, u)
    /\ IF HasConflict(u)
         THEN UNCHANGED <<chat_rate_limits, uncommittedBy, lockHolder>>
         ELSE /\ chat_rate_limits' = chat_rate_limits \cup
                     {[user_id |-> u, window_start |-> v_now[c], count |-> 0,
                       updated_at |-> v_now[c]]}
              /\ uncommittedBy' = [uncommittedBy EXCEPT ![u] = c]
              /\ lockHolder' = [lockHolder EXCEPT ![u] = c]
    /\ rlpc' = [rlpc EXCEPT ![c] = "select"]
    /\ UNCHANGED <<clock, p_window_seconds, p_max_count, p_user_id, v_now,
                   v_window_start, v_count, rl_result>>
    /\ UNCHANGED reqvars
    /\ UNCHANGED gqvars
    /\ UNCHANGED <<toolvars, sessvars, clientvars>>

\* select window_start, count into v_window_start, v_count ... for update
SelectForUpdate(c) ==
    LET u == p_user_id[c] IN
    /\ rlpc[c] = "select"
    /\ RowLockAvailable(c, u)
    /\ IF RowsOf(u) = {}
         THEN /\ v_window_start' = [v_window_start EXCEPT ![c] = NullValue]
              /\ v_count' = [v_count EXCEPT ![c] = NullValue]
              /\ UNCHANGED lockHolder
         ELSE \E r \in RowsOf(u) :
              /\ v_window_start' = [v_window_start EXCEPT ![c] = r.window_start]
              /\ v_count' = [v_count EXCEPT ![c] = r.count]
              /\ lockHolder' = [lockHolder EXCEPT ![u] = c]
    /\ rlpc' = [rlpc EXCEPT ![c] = "eval"]
    /\ UNCHANGED <<clock, p_window_seconds, p_max_count, chat_rate_limits, uncommittedBy,
                   p_user_id, v_now, rl_result>>
    /\ UNCHANGED reqvars
    /\ UNCHANGED gqvars
    /\ UNCHANGED <<toolvars, sessvars, clientvars>>

\* the rest of the function body, then the transaction commits
\* (the row lock is released and an inserted row becomes visible)
EvaluateAndCommit(c) ==
    LET u   == p_user_id[c]
        ws0 == IF v_window_start[c] = NullValue THEN v_now[c] ELSE v_window_start[c]
        ct0 == IF v_window_start[c] = NullValue THEN 0 ELSE v_count[c]
        exp == WindowExpired(v_now[c], ws0)
        ws1 == IF exp THEN v_now[c] ELSE ws0
        ct1 == IF exp THEN 0 ELSE ct0
    IN
    /\ rlpc[c] = "eval"
    /\ IF OverLimit(ct1)
         THEN /\ rl_result' = [rl_result EXCEPT ![c] =
                     [allowed |-> FALSE, remaining |-> 0,
                      reset_at |-> ws1 + p_window_seconds]]
              /\ UNCHANGED chat_rate_limits
         ELSE /\ chat_rate_limits' =
                     {r \in chat_rate_limits : r.user_id # u} \cup
                     {[r EXCEPT !.window_start = ws1, !.count = ct1 + 1,
                                !.updated_at = v_now[c]] : r \in RowsOf(u)}
              /\ rl_result' = [rl_result EXCEPT ![c] =
                     [allowed |-> TRUE,
                      remaining |-> Remaining(ct1 + 1),
                      reset_at |-> ws1 + p_window_seconds]]
    /\ v_window_start' = [v_window_start EXCEPT ![c] = NullValue]
    /\ v_count' = [v_count EXCEPT ![c] = NullValue]
    /\ lockHolder' = [lockHolder EXCEPT ![u] = IF @ = c THEN NoCall ELSE @]
    /\ uncommittedBy' = [uncommittedBy EXCEPT ![u] = IF @ = c THEN NoCall ELSE @]
    /\ rlpc' = [rlpc EXCEPT ![c] = "done"]
    /\ UNCHANGED <<clock, p_window_seconds, p_max_count, p_user_id, v_now>>
    /\ UNCHANGED reqvars
    /\ UNCHANGED gqvars
    /\ UNCHANGED <<toolvars, sessvars, clientvars>>

NextRateLimit ==
    \/ Tick
    \/ \E c \in Calls, u \in Users : BeginCall(c, u)
    \/ \E c \in Calls : InsertOnConflictDoNothing(c)
    \/ \E c \in Calls : SelectForUpdate(c)
    \/ \E c \in Calls : EvaluateAndCommit(c)

SpecRateLimit == InitRateLimit /\ [][NextRateLimit]_vars

(***************************************************************************)
(* Properties of the rate limiter (checked under SpecRateLimit)            *)
(***************************************************************************)
Min(a, b) == IF a <= b THEN a ELSE b

\* the stored counter row of an identity (when it has one)
Row(u) == CHOOSE r \in RowsOf(u) : TRUE

DoneCalls(u) == {c \in Calls : rlpc[c] = "done" /\ p_user_id[c] = u}
AllowedCalls(u) == {c \in DoneCalls(u) : rl_result[c].allowed}

\* call c returns in this step
Returns(c) == rlpc[c] = "eval" /\ rlpc'[c] = "done"

\* C1: as long as the first window has not elapsed, the calls of one identity
\* that have returned were admitted exactly min(N, maxCount) times, whatever
\* the interleaving of the N transactions (with maxCount = 1: exactly once).
C1_Atomicity ==
    \A u \in Users :
        clock < p_window_seconds =>
            Cardinality(AllowedCalls(u)) = Min(Cardinality(DoneCalls(u)), p_max_count)

\* three transactions of one identity started in the same second against a
\* fresh counter with maxCount = 1 have all returned, one of them admitted
C1_Witness ==
    /\ p_max_count = 1
    /\ clock = 0
    /\ Cardinality(DoneCalls("u1")) >= 3
    /\ Cardinality(AllowedCalls("u1")) = 1

\* C2: rolling window: no interval of p_window_seconds seconds contains more
\* than p_max_count admitted checks of one identity (a check is timed by the
\* now() of its transaction).
C2_RollingWindow ==
    \A u \in Users : \A t \in 0..MaxTime :
        Cardinality({c \in AllowedCalls(u) :
                        t <= v_now[c] /\ v_now[c] < t + p_window_seconds})
            <= p_max_count

\* C3: a check that finds the stored count >= maxCount in a window that has
\* not expired returns (false, 0, window_start + windowSeconds) and leaves
\* the table unchanged.
C3_RejectedLeavesRow ==
    [][\A c \in Calls :
          (/\ Returns(c)
           /\ RowsOf(p_user_id[c]) # {}
           /\ Row(p_user_id[c]).count >= p_max_count
           /\ v_now[c] - Row(p_user_id[c]).window_start < p_window_seconds)
          => /\ rl_result'[c] =
                   [allowed |-> FALSE, remaining |-> 0,
                    reset_at |-> Row(p_user_id[c]).window_start + p_window_seconds]
             /\ chat_rate_limits' = chat_rate_limits]_vars

\* a call was rejected against a full, unexpired window whose row still
\* holds count = maxCount
C3_Witness ==
    \E c \in Calls :
        /\ rlpc[c] = "done"
        /\ ~rl_result[c].allowed
        /\ rl_result[c].remaining = 0
        /\ RowsOf(p_user_id[c]) # {}
        /\ Row(p_user_id[c]).count = p_max_count
        /\ rl_result[c].reset_at = Row(p_user_id[c]).window_start + p_window_seconds
        /\ v_now[c] > Row(p_user_id[c]).window_start

\* the count a check evaluates: the stored one, or 0 once the window expired
EffectiveCount(c) ==
    IF v_now[c] - Row(p_user_id[c]).window_start >= p_window_seconds
      THEN 0 ELSE Row(p_user_id[c]).count
EffectiveWindowStart(c) ==
    IF v_now[c] - Row(p_user_id[c]).window_start >= p_window_seconds
      THEN v_now[c] ELSE Row(p_user_id[c]).window_start

\* the admitted calls of identity u counted in the window that starts at w
AdmittedInWindow(u, w) ==
    {c \in AllowedCalls(u) : rl_result[c].reset_at = w + p_window_seconds}

\* C4: an admitted check stores count + 1 (count taken after any window
\* reset) and returns (true, maxCount - new count, window_start +
\* windowSeconds); the k-th admitted call of a window reports maxCount - k.
C4_AdmitIncrements ==
    /\ [][\A c \in Calls :
            (/\ Returns(c)
             /\ RowsOf(p_user_id[c]) # {}
             /\ EffectiveCount(c) < p_max_count)
            => /\ RowsOf(p_user_id[c])' =
                     {[user_id |-> p_user_id[c],
                       window_start |-> EffectiveWindowStart(c),
                       count |-> EffectiveCount(c) + 1,
                       updated_at |-> v_now[c]]}
               /\ rl_result'[c] =
                     [allowed |-> TRUE,
                      remaining |-> p_max_count - (EffectiveCount(c) + 1),
                      reset_at |-> EffectiveWindowStart(c) + p_window_seconds]]_vars
    /\ [](\A u \in Users : \A w \in 0..MaxTime :
            {rl_result[c].remaining : c \in AdmittedInWindow(u, w)} =
            {p_max_count - k : k \in 1..Cardinality(AdmittedInWindow(u, w))})

\* the second call admitted in a window of a maxCount = 2 policy reported
\* remaining = 0 and the row holds count = 2
C4_Witness ==
    \E c \in Calls :
        /\ p_max_count = 2
        /\ rlpc[c] = "done"
        /\ rl_result[c].allowed
        /\ rl_result[c].remaining = 0
        /\ RowsOf(p_user_id[c]) # {}
        /\ Row(p_user_id[c]).count = 2
        /\ rl_result[c].reset_at = Row(p_user_id[c]).window_start + p_window_seconds

\* C5: a check that finds count = maxCount and now - window_start >=
\* windowSeconds is admitted and leaves window_start = now, count = 1; one
\* made strictly before the window has elapsed is rejected.
C5_WindowReset ==
    [][\A c \in Calls :
          (/\ Returns(c)
           /\ RowsOf(p_user_id[c]) # {}
           /\ Row(p_user_id[c]).count = p_max_count)
          => IF v_now[c] - Row(p_user_id[c]).window_start >= p_window_seconds
               THEN /\ rl_result'[c].allowed
                    /\ RowsOf(p_user_id[c])' # {}
                    /\ \A r \in RowsOf(p_user_id[c])' :
                          r.window_start = v_now[c] /\ r.count = 1
               ELSE ~rl_result'[c].allowed]_vars

\* a full window expired and the next call opened a fresh one: maxCount
\* calls were admitted in the window at 0, and one in a later window whose
\* row now reads window_start = now(call), count = 1
C5_Witness ==
    \E c \in Calls :
        /\ rlpc[c] = "done"
        /\ rl_result[c].allowed
        /\ v_now[c] >= p_window_seconds
        /\ Cardinality(AdmittedInWindow(p_user_id[c], 0)) = p_max_count
        /\ RowsOf(p_user_id[c]) # {}
        /\ Row(p_user_id[c]).window_start = v_now[c]
        /\ Row(p_user_id[c]).count = 1
        /\ rl_result[c].remaining = p_max_count - 1

\* C6: every identity has at most one counter row, and 0 <= count <= maxCount.
C6_OneRowBoundedCount ==
    /\ \A u \in Users : Cardinality(RowsOf(u)) <= 1
    /\ \A r \in chat_rate_limits : 0 <= r.count /\ r.count <= p_max_count

\* both identities have a row; one is full in a window opened by a reset and
\* has rejected a call
C6_Witness ==
    /\ \A u \in Users : Cardinality(RowsOf(u)) = 1
    /\ \E c \in Calls :
          /\ rlpc[c] = "done"
          /\ ~rl_result[c].allowed
          /\ Row(p_user_id[c]).count = p_max_count
          /\ Row(p_user_id[c]).window_start > 0

(***************************************************************************)
(* serve handler: one admitted request (authenticated, within quota,       *)
(* non-empty message, session resolved) through the agent loop             *)
(***************************************************************************)
MAX_HISTORY_MESSAGES == 24
MAX_AGENT_ITERS == 5

\* at most this many catalog queries fail during one request
MaxDbFailures == 1

\* ---- text: a string is a sequence of characters ----
IsSpace(ch) == ch = " "

RECURSIVE TrimStart(_)
TrimStart(s) == IF s # <<>> /\ IsSpace(Head(s)) THEN TrimStart(Tail(s)) ELSE s

RECURSIVE TrimEnd(_)
TrimEnd(s) ==
    IF s # <<>> /\ IsSpace(s[Len(s)]) THEN TrimEnd(SubSeq(s, 1, Len(s) - 1)) ELSE s

\* String.prototype.trim
Trim(s) == TrimEnd(TrimStart(s))

\* the reply used when the model's final content is empty
DefaultReply == <<"tamam.">>
\* the canned reply of the iteration cap
maxIterReply == <<"too many search rounds, ask again in a simpler way">>

systemPrompt == <<"Byte system prompt">>
currentSessionId == "s1"
\* body.message after String(...).trim()
message == <<"c", "h", "a", "r", "g", "e", "r">>

\* ---- JSON values (tagged) ----
JNull == [t |-> "null"]
JNum(n) == [t |-> "num", v |-> n]
\* a string; Number(string) is NaN, or num for a numeric string
JStr(txt) == [t |-> "str", v |-> txt, numeric |-> FALSE, num |-> 0]
JNumStr(txt, num) == [t |-> "str", v |-> txt, numeric |-> TRUE, num |-> num]
JList(l) == [t |-> "list", v |-> l]
JObj(o) == [t |-> "obj", v |-> o]
EmptyObject == JObj(<<>>)

\* Number(x); isNaN(num) ? null : num
CoerceNumber(x) ==
    IF x.t = "num" THEN x
    ELSE IF x.t = "str" /\ x.numeric THEN JNum(x.num)
    ELSE JNull

\* tc.function.arguments as text, by what JSON.parse makes of it
ArgsObject(o) == [kind |-> "object", value |-> JObj(o)]
ArgsUnparseable == [kind |-> "unparseable"]
ArgsEmpty == [kind |-> "empty"]
ArgsNullLiteral == [kind |-> "null"]

\* const argsText = tc?.function?.arguments || "{}";
\* try { args = JSON.parse(argsText) } catch (_) { args = {} }
ParseArgs(argsText) ==
    CASE argsText.kind = "object" -> argsText.value
      [] argsText.kind = "null" -> JNull
      [] argsText.kind = "empty" -> EmptyObject
      [] OTHER -> EmptyObject

\* args[k] on a null args is a TypeError
CoercionThrows(args) == args.t = "null"

\* "Coerce stringified numbers from LLM"
CoercePrices(args) ==
    JObj([k \in DOMAIN args.v |->
            IF k \in {"min_price", "max_price"} /\ args.v[k].t # "null"
              THEN CoerceNumber(args.v[k])
              ELSE args.v[k]])

\* ---- the catalog (public.products), in catalog order ----
Catalog ==
    << [id |-> "p1", price |-> 150, category |-> "accessory"],
       [id |-> "p2", price |-> 450, category |-> "accessory"],
       [id |-> "p3", price |-> 900, category |-> "audio"],
       [id |-> "p4", price |-> 12000, category |-> "phone"],
       [id |-> "p5", price |-> 30000, category |-> "laptop"],
       [id |-> "p6", price |-> 45000, category |-> "laptop"] >>

RECURSIVE SelectSeq2(_, _)
\* the rows of a sequence whose id is in a set, in order
SelectSeq2(rows, ids) ==
    IF rows = <<>> THEN <<>>
    ELSE IF Head(rows).id \in ids
           THEN <<Head(rows)>> \o SelectSeq2(Tail(rows), ids)
           ELSE SelectSeq2(Tail(rows), ids)

\* what the database answers to one catalog query of an executor
DbOk(rows) == [fails |-> FALSE, rows |-> rows, countFails |-> FALSE]
DbError == [fails |-> TRUE, rows |-> <<>>, countFails |-> TRUE]
\* only the count query of get_price_range fails
DbCountError == [fails |-> FALSE, rows |-> <<>>, countFails |-> TRUE]

\* ---- tool executors ----
\* String(x) of an element of ids
StringOf(x) ==
    IF x.t = "str" THEN x.v ELSE IF x.t = "num" THEN ToString(x.v) ELSE "null"

\* mutant: empty ids are kept
NormalizedIds_Unfiltered(args) ==
    IF args.t = "obj" /\ "ids" \in DOMAIN args.v /\ args.v["ids"].t = "list"
      THEN LET l == args.v["ids"].v
           IN [n \in 1..Len(l) |-> StringOf(l[n])]
      ELSE <<>>

\* Array.isArray(args?.ids) ? args.ids.map(String).filter(Boolean) : []
NormalizedIds(args) ==
    IF args.t = "obj" /\ "ids" \in DOMAIN args.v /\ args.v["ids"].t = "list"
      THEN LET l == args.v["ids"].v
               strs == [n \in 1..Len(l) |-> StringOf(l[n])]
           IN SelectSeq(strs, LAMBDA x : x # "")
      ELSE <<>>

\* execShowProducts: .from("products").select(...).in("id", ids)
execShowProducts(args, db) ==
    LET ids == NormalizedIds(args) IN
    IF Len(ids) = 0 THEN [products |-> <<>>]
    ELSE IF db.fails THEN [products |-> <<>>, error |-> "catalog query failed"]
    ELSE [products |-> SelectSeq2(Catalog, {ids[n] : n \in 1..Len(ids)})]

\* execSearchProducts: the filtered, limit(5) query is answered by the
\* database; the executor shapes the answer
execSearchProducts(args, db) ==
    IF db.fails THEN [products |-> <<>>, error |-> "catalog query failed"]
    ELSE [products |-> db.rows]

\* args?.category ? String(args.category) : null
CategoryOf(args) ==
    IF args.t = "obj" /\ "category" \in DOMAIN args.v /\ args.v["category"].t = "str"
       /\ args.v["category"].v # ""
      THEN args.v["category"].v ELSE "all"

RECURSIVE MinPrice(_)
MinPrice(rows) ==
    IF Len(rows) = 1 THEN rows[1].price
    ELSE LET m == MinPrice(Tail(rows)) IN IF rows[1].price <= m THEN rows[1].price ELSE m

RECURSIVE MaxPrice(_)
MaxPrice(rows) ==
    IF Len(rows) = 1 THEN rows[1].price
    ELSE LET m == MaxPrice(Tail(rows)) IN IF rows[1].price >= m THEN rows[1].price ELSE m

\* execGetPriceRange: cheapest, most expensive and count under one filter
execGetPriceRange(args, db) ==
    LET category == CategoryOf(args)
        rows == SelectSeq(Catalog, LAMBDA r : category = "all" \/ r.category = category)
    IN IF db.fails THEN [error |-> "catalog query failed"]
       \* countRes.error is never read: countRes.count ?? 0
       ELSE [min_price |-> IF rows = <<>> THEN JNull ELSE JNum(MinPrice(rows)),
             max_price |-> IF rows = <<>> THEN JNull ELSE JNum(MaxPrice(rows)),
             total_count |-> IF db.countFails THEN 0 ELSE Len(rows),
             category |-> category]

KnownTools == {"search_products", "get_price_range", "show_products"}

\* the if / else-if chain on toolName
ExecTool(toolName, args, db) ==
    CASE toolName = "search_products" -> execSearchProducts(args, db)
      [] toolName = "get_price_range" -> execGetPriceRange(args, db)
      [] toolName = "show_products" -> execShowProducts(args, db)
      [] OTHER -> [error |-> "Unknown tool"]

\* mutant: the result of any tool that returns products is kept
UpdateLastProducts_AnyTool(last, toolName, toolResult) ==
    IF "products" \in DOMAIN toolResult /\ Len(toolResult.products) > 0
      THEN toolResult.products ELSE last

\* if (toolResult.products?.length) lastProducts = toolResult.products
\* (inside the show_products branch)
UpdateLastProducts(last, toolName, toolResult) ==
    IF toolName = "show_products" /\ "products" \in DOMAIN toolResult
       /\ Len(toolResult.products) > 0
      THEN toolResult.products ELSE last

\* the body of "for (const tc of assistantMsg.tool_calls)" for one call
DispatchOne(st, tc, db) ==
    LET parsed == ParseArgs(tc.arguments) IN
    IF CoercionThrows(parsed) THEN [st EXCEPT !.threw = TRUE]
    ELSE LET args == CoercePrices(parsed)
             toolResult == ExecTool(tc.name, args, db)
         IN [agentMessages |-> Append(st.agentMessages,
                                  [role |-> "tool", tool_call_id |-> tc.id,
                                   name |-> tc.name, content |-> toolResult]),
             toolsUsed |-> Append(st.toolsUsed,
                                  [tool |-> tc.name, args |-> args, result |-> toolResult]),
             lastProducts |-> UpdateLastProducts(st.lastProducts, tc.name, toolResult),
             threw |-> FALSE]

RECURSIVE DispatchAll(_, _, _)
\* the tool calls of one response, in order; an exception ends the loop
DispatchAll(st, tcs, dbs) ==
    IF tcs = <<>> \/ st.threw THEN st
    ELSE DispatchAll(DispatchOne(st, Head(tcs), Head(dbs)), Tail(tcs), Tail(dbs))

\* ---- conversation log ----
\* a nullable column: <<>> is NULL, <<v>> holds v
SqlNull == <<>>
NotNull(v) == <<v>>

\* mutant: the product list is logged even when it is empty
ProductsRecommended_Always(products) == NotNull(products)

\* products_recommended: lastProducts.length > 0 ? lastProducts : null
ProductsRecommended(products) ==
    IF Len(products) > 0 THEN NotNull(products) ELSE SqlNull

\* tools_used: toolsUsedInResponse.length > 0 ? toolsUsedInResponse : null
ToolsUsed(tools) == IF Len(tools) > 0 THEN NotNull(tools) ELSE SqlNull

\* mutant: the logged content is not the reply
AssistantRow_DefaultReply(content, tools, products) ==
    [session_id |-> currentSessionId, role |-> "assistant", content |-> DefaultReply,
     tools_used |-> ToolsUsed(tools),
     products_recommended |-> ProductsRecommended(products)]

AssistantRow(content, tools, products) ==
    [session_id |-> currentSessionId, role |-> "assistant", content |-> content,
     tools_used |-> ToolsUsed(tools),
     products_recommended |-> ProductsRecommended(products)]

UserRow == [session_id |-> currentSessionId, role |-> "user", content |-> message]

\* the outer catch
InternalError == [status |-> 500, message |-> "Internal error"]

\* .from("chat_sessions").update({ updated_at }).eq("id", currentSessionId)
SessionTouch == [session_id |-> currentSessionId]

\* one write issued to the conversation log and awaited, with its outcome
LogWrite(kind, row, ok) == [kind |-> kind, row |-> row, ok |-> ok]

\* mutant: a failed write makes the handler throw
AfterWrite_Throws(ok, outcome) == IF ok THEN outcome ELSE InternalError

\* if (logError) console.error(...): the handler goes on either way
AfterWrite(ok, outcome) == outcome

\* an insert that fails is only reported on the console
InsertRow(rows, row, ok) == IF ok THEN Append(rows, row) ELSE rows

\* mutant: the first MAX_HISTORY_MESSAGES entries are kept, not the last
TrimmedHistory_Head(h) ==
    LET kept == SelectSeq(h, LAMBDA m : m.role \in {"user", "assistant"})
    IN IF Len(kept) <= MAX_HISTORY_MESSAGES THEN kept
       ELSE SubSeq(kept, 1, MAX_HISTORY_MESSAGES)

\* history.filter(role is user or assistant)
\*        .map(m => ({ role, content })).slice(-MAX_HISTORY_MESSAGES)
TrimmedHistory(h) ==
    LET kept == SelectSeq(h, LAMBDA m : m.role \in {"user", "assistant"})
        mapped == [n \in 1..Len(kept) |->
                     [role |-> kept[n].role, content |-> kept[n].content]]
    IN IF Len(mapped) <= MAX_HISTORY_MESSAGES THEN mapped
       ELSE SubSeq(mapped, Len(mapped) - MAX_HISTORY_MESSAGES + 1, Len(mapped))


\* ---- what the caller and the model may send ----
Histories ==
    { << [role |-> "system", content |-> <<"x">>],
         [role |-> "user", content |-> <<"h", "i">>],
         [role |-> "assistant", content |-> <<"o", "k">>] >> }

\* the token auth.getUser accepts
ValidJwt == "jwt-u1"

\* body.message as sent: absent or empty, blank, and the message with padding
RawMessages == { <<>>, <<" ">>, <<" ">> \o message \o <<" ">> }

\* Authorization header (after the Bearer prefix) and body of a request
Requests ==
    {[jwt |-> j, body |-> [parses |-> FALSE]] : j \in {"", "bad", ValidJwt}}
    \cup {[jwt |-> j,
           body |-> [parses |-> TRUE, message |-> m, history |-> h, session_id |-> sid]] :
             j \in {"", "bad", ValidJwt}, m \in RawMessages, h \in Histories,
             sid \in {"", currentSessionId}}

\* final contents: padded text, blank
ModelTexts == { <<" ", "o", "k", " ">>, <<" ">> }

ToolCall(id, name, arguments) == [id |-> id, name |-> name, arguments |-> arguments]

TcSearch ==
    ToolCall("call_1", "search_products",
             ArgsObject([query |-> JStr("charger"), max_price |-> JNumStr("500", 500)]))
TcShowUnparseable == ToolCall("call_3", "show_products", ArgsUnparseable)
TcSearchNullArgs == ToolCall("call_1", "search_products", ArgsNullLiteral)
TcPriceRange ==
    ToolCall("call_1", "get_price_range", ArgsObject([category |-> JStr("laptop")]))
TcShow(ids) ==
    ToolCall("call_2", "show_products",
             ArgsObject([ids |-> JList([n \in 1..Len(ids) |-> JStr(ids[n])])]))
TcUnknown == ToolCall("call_2", "add_to_cart", ArgsEmpty)

\* the ids of every product of the catalog
CatalogIds == [n \in 1..Len(Catalog) |-> Catalog[n].id]

\* the tool_calls arrays the model may answer with
ToolCallLists ==
    { <<TcSearch>>, <<TcSearchNullArgs>>,
      <<TcShow(CatalogIds)>>,
      <<TcSearch, TcShow(<<"p2">>)>>,
      <<TcPriceRange, TcUnknown, TcShowUnparseable>> }

\* completion.choices[0].message: plain text, text with an empty tool_calls
\* array, or tool calls
ModelMessages ==
    {[role |-> "assistant", content |-> c] : c \in ModelTexts}
    \cup {[role |-> "assistant", content |-> <<"o", "k">>, tool_calls |-> <<>>]}
    \cup {[role |-> "assistant", content |-> <<>>, tool_calls |-> tcs] :
             tcs \in ToolCallLists}

\* the database's answers to a search (at most 5 rows), or a failure
DbWorks == DbOk(SubSeq(Catalog, 1, 3))
DbAnswers == {DbWorks, DbError, DbCountError}

\* the call reaches the catalog: a known tool, and ids to show
IssuesQuery(tc) ==
    /\ tc.name \in KnownTools
    /\ ~CoercionThrows(ParseArgs(tc.arguments))
    /\ tc.name = "show_products"
         => Len(NormalizedIds(CoercePrices(ParseArgs(tc.arguments)))) > 0

\* the answers the catalog can give to the calls of one response: a call
\* that issues no query gets none, and only get_price_range has a count query
AnswersFor(tcs) ==
    {dbs \in [1..Len(tcs) -> DbAnswers] :
        \A n \in 1..Len(tcs) :
            /\ ~IssuesQuery(tcs[n]) => dbs[n] = DbWorks
            /\ tcs[n].name # "get_price_range" => dbs[n] # DbCountError}

\* the catalog queries that fail among them
DbFailures(dbs) == Cardinality({n \in 1..Len(dbs) : dbs[n] # DbWorks})

\* ---- the handler ----
\* the caller's counter row when the window opened at 0 is used up
FullRow == [user_id |-> "u1", window_start |-> 0, count |-> p_max_count, updated_at |-> 0]

InitRequest ==
    /\ p_window_seconds = 2
    /\ p_max_count = 1
    /\ clock \in 0..(p_window_seconds - 1)
    /\ chat_rate_limits \in {{}, {FullRow}}
    /\ chat_rate_limits = {} => clock = 0
    /\ NoCallInProgress
    /\ HandlerAtRest
    /\ GroqAtRest
    /\ ToolsAtRest
    /\ SessionsAtRest
    /\ ClientAtRest

\* jsonResponse(body, status) of a rejected request
Rejection(status, text) == [status |-> status, message |-> text]

\* mutant: the message is tested before trimming
MessageMissing_Untrimmed(body) == body.message = <<>>

\* const message = String(body?.message || "").trim(); if (!message)
MessageMissing(body) == Trim(body.message) = <<>>

\* the request arrives: Authorization header and JSON body
ReceiveRequest(req) ==
    /\ pc = "idle"
    /\ request' = req
    /\ pc' = "auth"
    /\ UNCHANGED <<history, agentMessages, iter, modelCalls, assistantMsg, lastProducts,
                   toolsUsedInResponse, chat_messages, sessionTouched, chat_sessions,
                   logWrites, response>>
    /\ UNCHANGED <<dbFailures, rl, dateNow>>
    /\ UNCHANGED rlvars
    /\ UNCHANGED gqvars
    /\ UNCHANGED <<toolvars, sessvars, clientvars>>

\* mutant: only a missing token is rejected
Authenticate_TokenUnchecked ==
    /\ pc = "auth"
    /\ IF request.jwt = ""
         THEN /\ response' = Rejection(401, "Unauthorized")
              /\ pc' = "done"
         ELSE /\ pc' = "ratelimit"
              /\ UNCHANGED response
    /\ UNCHANGED <<history, agentMessages, iter, modelCalls, assistantMsg, lastProducts,
                   toolsUsedInResponse, chat_messages, sessionTouched, request,
                   chat_sessions, logWrites>>
    /\ UNCHANGED <<dbFailures, rl, dateNow>>
    /\ UNCHANGED rlvars
    /\ UNCHANGED gqvars
    /\ UNCHANGED <<toolvars, sessvars, clientvars>>

\* "Validate user": a missing token, or one auth.getUser does not accept
Authenticate ==
    /\ pc = "auth"
    /\ IF request.jwt = ""
         THEN /\ response' = Rejection(401, "Unauthorized")
              /\ pc' = "done"
         ELSE IF request.jwt # ValidJwt
         THEN /\ response' = Rejection(401, "Unauthorized")
              /\ pc' = "done"
         ELSE /\ pc' = "ratelimit"
              /\ UNCHANGED response
    /\ UNCHANGED <<history, agentMessages, iter, modelCalls, assistantMsg, lastProducts,
                   toolsUsedInResponse, chat_messages, sessionTouched, request,
                   chat_sessions, logWrites>>
    /\ UNCHANGED <<dbFailures, rl, dateNow>>
    /\ UNCHANGED rlvars
    /\ UNCHANGED gqvars
    /\ UNCHANGED <<toolvars, sessvars, clientvars>>

\* Math.ceil(a / b) for b > 0
Ceil(a, b) == -((-a) \div b)

\* mutant: the remaining time is rounded down
RetryAfter_Floor(resetAt, now) ==
    IF resetAt # 0
      THEN Greatest(1, (resetAt - now) \div TicksPerSecond)
      ELSE p_window_seconds

\* resetAt ? Math.max(1, Math.ceil((resetAt - Date.now()) / 1000)) : RL_WINDOW_SECONDS
\* (both times in ticks)
RetryAfter(resetAt, now) ==
    IF resetAt # 0
      THEN Greatest(1, Ceil(resetAt - now, TicksPerSecond))
      ELSE p_window_seconds

\* new Date(rl.reset_at).getTime(), 0 when reset_at is missing
GetTime(reset_at) == IF reset_at = NullValue THEN 0 ELSE reset_at * TicksPerSecond

\* "Rate limit": the check_and_increment_chat_rate_limit rpc for user.id
\* (rpcOk: the rpc returned no error; latency: ticks until Date.now() is read)
CheckRateLimit(rpcOk, latency) ==
    LET rpc == check_and_increment_chat_rate_limit("u1", clock)
        now == clock * TicksPerSecond + latency
    IN
    /\ pc = "ratelimit"
    /\ IF ~rpcOk
         THEN /\ response' = Rejection(500, "Rate limiting backend error")
              /\ pc' = "done"
              /\ UNCHANGED <<chat_rate_limits, rl, dateNow>>
         ELSE /\ chat_rate_limits' = rpc.table
              /\ rl' = rpc.result
              /\ IF rpc.result.allowed = FALSE
                   THEN /\ dateNow' = now
                        /\ response' =
                              [status |-> 429, message |-> "too many messages",
                               retry_after |-> RetryAfter(GetTime(rpc.result.reset_at), now)]
                        /\ pc' = "done"
                   ELSE /\ pc' = "parse"
                        /\ UNCHANGED <<response, dateNow>>
    /\ UNCHANGED <<history, agentMessages, iter, modelCalls, assistantMsg, lastProducts,
                   toolsUsedInResponse, chat_messages, sessionTouched, request,
                   chat_sessions, logWrites>>
    /\ UNCHANGED dbFailures
    /\ UNCHANGED <<clock, p_window_seconds, p_max_count, uncommittedBy, lockHolder, rlpc,
                   p_user_id, v_now, v_window_start, v_count, rl_result>>
    /\ UNCHANGED gqvars
    /\ UNCHANGED <<toolvars, sessvars, clientvars>>

\* "Parse request": req.json() throws on a malformed body (outer catch);
\* an empty message after trimming is answered 400
ParseRequest ==
    /\ pc = "parse"
    /\ IF ~request.body.parses
         THEN /\ response' = InternalError
              /\ pc' = "done"
         ELSE IF MessageMissing(request.body)
         THEN /\ response' = Rejection(400, "Missing message")
              /\ pc' = "done"
         ELSE /\ pc' = "session"
              /\ UNCHANGED response
    /\ UNCHANGED <<history, agentMessages, iter, modelCalls, assistantMsg, lastProducts,
                   toolsUsedInResponse, chat_messages, sessionTouched, request,
                   chat_sessions, logWrites>>
    /\ UNCHANGED <<dbFailures, rl, dateNow>>
    /\ UNCHANGED rlvars
    /\ UNCHANGED gqvars
    /\ UNCHANGED <<toolvars, sessvars, clientvars>>

\* "Create or reuse chat session"
ResolveSession(createOk) ==
    /\ pc = "session"
    /\ IF request.body.session_id # ""
         THEN /\ pc' = "turn"
              /\ UNCHANGED <<chat_sessions, response>>
         ELSE IF ~createOk
         THEN /\ response' = Rejection(500, "Failed to create chat session")
              /\ pc' = "done"
              /\ UNCHANGED chat_sessions
         ELSE /\ chat_sessions' = chat_sessions \cup {currentSessionId}
              /\ pc' = "turn"
              /\ UNCHANGED response
    /\ UNCHANGED <<history, agentMessages, iter, modelCalls, assistantMsg, lastProducts,
                   toolsUsedInResponse, chat_messages, sessionTouched, request, logWrites>>
    /\ UNCHANGED <<dbFailures, rl, dateNow>>
    /\ UNCHANGED rlvars
    /\ UNCHANGED gqvars
    /\ UNCHANGED <<toolvars, sessvars, clientvars>>

\* "Log user message", trimmedHistory, agentMessages
BeginTurn(logOk) ==
    /\ pc = "turn"
    /\ history' = request.body.history
    /\ chat_messages' = InsertRow(chat_messages, UserRow, logOk)
    /\ logWrites' = Append(logWrites, LogWrite("insert", UserRow, logOk))
    /\ agentMessages' = <<[role |-> "system", content |-> systemPrompt]>>
                          \o TrimmedHistory(request.body.history)
                          \o <<[role |-> "user", content |-> Trim(request.body.message)]>>
    /\ lastProducts' = <<>>
    /\ toolsUsedInResponse' = <<>>
    /\ iter' = 0
    /\ pc' = "model"
    /\ UNCHANGED <<modelCalls, assistantMsg, sessionTouched, request, chat_sessions,
                   response>>
    /\ UNCHANGED <<dbFailures, rl, dateNow>>
    /\ UNCHANGED rlvars
    /\ UNCHANGED gqvars
    /\ UNCHANGED <<toolvars, sessvars, clientvars>>

\* mutant: the outer catch logs the failure as an assistant message
CatchLog_LogsFailure(writes) ==
    Append(writes, LogWrite("insert", AssistantRow(<<>>, <<>>, <<>>), TRUE))

\* the outer catch writes to the console only: the log is left as it is
CatchLog(writes) == writes

\* groqChat throws (no key, provider error, fetch error), or the completion
\* carries no assistant message: the outer catch answers 500
GroqChatFails ==
    /\ pc = "model"
    /\ modelCalls' = modelCalls + 1
    /\ response' = InternalError
    /\ pc' = "done"
    /\ assistantMsg' = [role |-> "assistant", content |-> <<>>]
    /\ logWrites' = CatchLog(logWrites)
    /\ UNCHANGED <<history, agentMessages, iter, lastProducts, toolsUsedInResponse,
                   chat_messages, sessionTouched, request, chat_sessions>>
    /\ UNCHANGED <<dbFailures, rl, dateNow>>
    /\ UNCHANGED rlvars
    /\ UNCHANGED gqvars
    /\ UNCHANGED <<toolvars, sessvars, clientvars>>

\* if (assistantMsg.tool_calls && Array.isArray(assistantMsg.tool_calls))
TakesToolBranch(msg) == "tool_calls" \in DOMAIN msg

\* one round-trip answered with a tool_calls array: dispatch and continue
ModelReturnsToolCalls(msg, dbs) ==
    LET st0 == [agentMessages |-> Append(agentMessages, msg),
                toolsUsed |-> toolsUsedInResponse,
                lastProducts |-> lastProducts, threw |-> FALSE]
        st == DispatchAll(st0, msg.tool_calls, dbs)
    IN
    /\ pc = "model"
    /\ TakesToolBranch(msg)
    /\ dbs \in AnswersFor(msg.tool_calls)
    /\ dbFailures + DbFailures(dbs) <= MaxDbFailures
    /\ dbFailures' = dbFailures + DbFailures(dbs)
    /\ UNCHANGED <<rl, dateNow>>
    /\ modelCalls' = modelCalls + 1
    /\ assistantMsg' = msg
    /\ agentMessages' = st.agentMessages
    /\ toolsUsedInResponse' = st.toolsUsed
    /\ lastProducts' = st.lastProducts
    /\ IF st.threw
         THEN /\ response' = InternalError
              /\ pc' = "done"
              /\ UNCHANGED iter
         ELSE /\ iter' = iter + 1
              /\ pc' = IF iter + 1 < MAX_AGENT_ITERS THEN "model" ELSE "cap"
              /\ UNCHANGED response
    /\ UNCHANGED <<history, chat_messages, sessionTouched, request, chat_sessions,
                   logWrites>>
    /\ UNCHANGED rlvars
    /\ UNCHANGED gqvars
    /\ UNCHANGED <<toolvars, sessvars, clientvars>>

\* one round-trip answered with final content: log, touch the session, reply
ModelReturnsFinal(msg, logOk, touchOk) ==
    LET finalText == Trim(msg.content)
        reply == IF finalText # <<>> THEN finalText ELSE DefaultReply
    IN
    /\ pc = "model"
    /\ ~TakesToolBranch(msg)
    /\ modelCalls' = modelCalls + 1
    /\ assistantMsg' = msg
    /\ chat_messages' = InsertRow(chat_messages,
                                  AssistantRow(reply, toolsUsedInResponse, lastProducts),
                                  logOk)
    /\ sessionTouched' = touchOk
    /\ logWrites' = logWrites
                      \o <<LogWrite("insert",
                                    AssistantRow(reply, toolsUsedInResponse, lastProducts),
                                    logOk),
                           LogWrite("touch", SessionTouch, touchOk)>>
    /\ response' = AfterWrite(logOk, AfterWrite(touchOk,
                        [status |-> 200, reply |-> reply, products |-> lastProducts,
                         session_id |-> currentSessionId]))
    /\ pc' = "done"
    /\ UNCHANGED <<history, agentMessages, iter, lastProducts, toolsUsedInResponse,
                   request, chat_sessions>>
    /\ UNCHANGED <<dbFailures, rl, dateNow>>
    /\ UNCHANGED rlvars
    /\ UNCHANGED gqvars
    /\ UNCHANGED <<toolvars, sessvars, clientvars>>

\* "If we hit max iterations": log the canned reply and return it
MaxIterationsReached(logOk) ==
    /\ pc = "cap"
    /\ chat_messages' = InsertRow(chat_messages,
                                  AssistantRow(maxIterReply, toolsUsedInResponse,
                                               lastProducts),
                                  logOk)
    /\ logWrites' = Append(logWrites,
                           LogWrite("insert",
                                    AssistantRow(maxIterReply, toolsUsedInResponse,
                                                 lastProducts),
                                    logOk))
    /\ response' = AfterWrite(logOk,
                        [status |-> 200, reply |-> maxIterReply, products |-> lastProducts,
                         session_id |-> currentSessionId])
    /\ pc' = "done"
    /\ UNCHANGED <<history, agentMessages, iter, modelCalls, assistantMsg, lastProducts,
                   toolsUsedInResponse, sessionTouched, request, chat_sessions>>
    /\ UNCHANGED <<dbFailures, rl, dateNow>>
    /\ UNCHANGED rlvars
    /\ UNCHANGED gqvars
    /\ UNCHANGED <<toolvars, sessvars, clientvars>>

Next ==
    \/ \E req \in Requests : ReceiveRequest(req)
    \/ Authenticate
    \/ \E rpcOk \in BOOLEAN, latency \in 0..MaxLatency : CheckRateLimit(rpcOk, latency)
    \/ ParseRequest
    \/ \E createOk \in BOOLEAN : ResolveSession(createOk)
    \/ \E logOk \in BOOLEAN : BeginTurn(logOk)
    \/ GroqChatFails
    \/ \E msg \in ModelMessages :
         \E dbs \in [1..(IF "tool_calls" \in DOMAIN msg THEN Len(msg.tool_calls) ELSE 0)
                       -> DbAnswers] :
            ModelReturnsToolCalls(msg, dbs)
    \/ \E msg \in ModelMessages, logOk \in BOOLEAN, touchOk \in BOOLEAN :
         ModelReturnsFinal(msg, logOk, touchOk)
    \/ \E logOk \in BOOLEAN : MaxIterationsReached(logOk)

Spec == InitRequest /\ [][Next]_vars

(***************************************************************************)
(* groqChat: one call, with key rotation and the schema-repair retry       *)
(***************************************************************************)
\* at most this many keys are configured
MaxKeys == 3

\* what the provider answers to one request: status and body text
Responses ==
    { [status |-> 200, body |-> "completion"],
      [status |-> 200, body |-> "not json"],
      [status |-> 429, body |-> "too many requests"],
      [status |-> 503, body |-> "rate_limit_exceeded"],
      [status |-> 400, body |-> "tool_use_failed"],
      [status |-> 500, body |-> "server error"] }

\* fetch either rejects (network, DNS) or resolves to a response
FetchOutcomes ==
    {[threw |-> TRUE, status |-> 0, body |-> "network error"]}
    \cup {[threw |-> FALSE, status |-> r.status, body |-> r.body] : r \in Responses}

\* res.ok
ResOk(status) == status \in 200..299

\* JSON.parse(text) succeeds
JsonParses(body) == body = "completion"

\* status === 429 || body includes "rate limit" / "rate_limit_exceeded"
isRateLimit(status, body) ==
    status = 429 \/ body \in {"rate limit", "rate_limit_exceeded"}

\* mutant: any provider error triggers the repair retry
isToolCallValidationFailure_AnyError(status, body) == ~ResOk(status)

\* status 400 and a body that names a tool-call validation failure
isToolCallValidationFailure(status, body) ==
    /\ status = 400
    /\ body \in {"tool call validation failed", "tool_use_failed", "invalid_request_error"}

\* mutant: never another key
HasNextKey_None(i) == FALSE

\* i < GROQ_API_KEYS.length - 1
HasNextKey(i) == i < Len(GROQ_API_KEYS)

\* `Groq error (${res.status}): ${text}`
GroqError(status, body) == [kind |-> "groq", status |-> status, body |-> body]
\* `Groq response JSON parse error: ... Body: ${text}`
ParseError(body) == [kind |-> "parse", body |-> body]
\* the message of the error fetch rejects with
NetworkError == [kind |-> "network"]
MissingKeys == [kind |-> "missing keys"]

\* mutant: the caught error's message is dropped
FetchError_Generic(inner) == [kind |-> "fetch", detail |-> NoError]

\* `Groq fetch error: ${String(fetchErr?.message || fetchErr)}`
FetchError(inner) == [kind |-> "fetch", detail |-> inner]

\* the corrective system message
repairMsg == [role |-> "system", content |-> <<"Tool call repair instruction">>]

\* mutant: the hint is pushed onto the caller's messages array
withToolSchemaRepairHint_InPlace(origPayload) ==
    LET msgs == Append(origPayload.messages, repairMsg)
    IN [nextPayload |-> [origPayload EXCEPT !.messages = msgs],
        origPayload |-> [origPayload EXCEPT !.messages = msgs]]

\* nextPayload = { ...origPayload } with messages = [...origPayload.messages]
\* and the hint pushed onto that copy; origPayload is the caller's object as
\* the function leaves it (a provider body that is not JSON adds no detail
\* to the hint)
withToolSchemaRepairHint(origPayload) ==
    LET msgs == origPayload.messages
    IN [nextPayload |-> [origPayload EXCEPT !.messages = Append(msgs, repairMsg)],
        origPayload |-> origPayload]

\* doFetch(bodyPayload): one request sent with the key at keyIndex
Fetch(bodyPayload, repaired, out) ==
    [key |-> GROQ_API_KEYS[keyIndex], repaired |-> repaired, outcome |-> out,
     messages |-> bodyPayload.messages]

\* the conversation of a call: system prompt and user turn
Conversation ==
    << [role |-> "system", content |-> systemPrompt],
       [role |-> "user", content |-> message] >>

InitGroqChat ==
    /\ p_window_seconds = 1
    /\ p_max_count = 1
    /\ RateLimiterAtRest
    /\ HandlerAtRest
    /\ ToolsAtRest
    /\ SessionsAtRest
    /\ ClientAtRest
    /\ GROQ_API_KEYS \in {[n \in 1..k |-> n] : k \in 0..MaxKeys}
    /\ gpc = "idle"
    /\ keyIndex = 0
    /\ repairAttemptedForThisKey = FALSE
    /\ lastErr = NoError
    /\ fetches = <<>>
    /\ groqResult = [threw |-> FALSE, completion |-> NoError]
    /\ payload = [messages |-> Conversation]
    /\ providerRequests = 0

\* continue: the next iteration of the key loop
ContinueWithNextKey ==
    /\ keyIndex' = keyIndex + 1
    /\ repairAttemptedForThisKey' = FALSE
    /\ gpc' = "first"
    /\ UNCHANGED groqResult

\* catch (fetchErr): whatever was thrown inside the try of this iteration
Catch(inner) ==
    /\ lastErr' = FetchError(inner)
    /\ IF HasNextKey(keyIndex)
         THEN ContinueWithNextKey
         ELSE /\ groqResult' = [threw |-> TRUE, error |-> FetchError(inner)]
              /\ gpc' = "thrown"
              /\ UNCHANGED <<keyIndex, repairAttemptedForThisKey>>

\* "From here on, use the final response body"
Conclude(out) ==
    IF ResOk(out.status)
      THEN IF JsonParses(out.body)
             THEN /\ groqResult' = [threw |-> FALSE,
                                    completion |-> [key |-> GROQ_API_KEYS[keyIndex],
                                                    body |-> out.body]]
                  /\ gpc' = "returned"
                  /\ UNCHANGED <<keyIndex, repairAttemptedForThisKey, lastErr>>
             ELSE Catch(ParseError(out.body))
      ELSE IF isRateLimit(out.status, out.body) /\ HasNextKey(keyIndex)
             THEN /\ lastErr' = GroqError(out.status, out.body)
                  /\ ContinueWithNextKey
             \* throw new Error(lastErr) is thrown inside the try
             ELSE Catch(GroqError(out.status, out.body))

\* groqChat is entered
GroqChatStart ==
    /\ gpc = "idle"
    /\ IF Len(GROQ_API_KEYS) = 0
         THEN /\ groqResult' = [threw |-> TRUE, error |-> MissingKeys]
              /\ gpc' = "thrown"
              /\ UNCHANGED keyIndex
         ELSE /\ keyIndex' = 1
              /\ gpc' = "first"
              /\ UNCHANGED groqResult
    /\ UNCHANGED <<GROQ_API_KEYS, repairAttemptedForThisKey, lastErr, fetches, payload,
                   providerRequests>>
    /\ UNCHANGED <<rlvars, reqvars, toolvars, sessvars, clientvars>>

\* res = await doFetch(payload), and what follows it
FirstFetch(out) ==
    /\ gpc = "first"
    /\ fetches' = Append(fetches, Fetch(payload, FALSE, out))
    /\ providerRequests' = providerRequests + 1
    /\ UNCHANGED payload
    /\ IF out.threw
         THEN Catch(NetworkError)
         ELSE IF /\ ~ResOk(out.status)
                 /\ ~repairAttemptedForThisKey
                 /\ isToolCallValidationFailure(out.status, out.body)
         THEN /\ repairAttemptedForThisKey' = TRUE
              /\ gpc' = "retry"
              /\ UNCHANGED <<keyIndex, lastErr, groqResult>>
         ELSE Conclude(out)
    /\ UNCHANGED GROQ_API_KEYS
    /\ UNCHANGED <<rlvars, reqvars, toolvars, sessvars, clientvars>>

\* mutant: a retry that fails validation again is retried again
RetryFetch_Again(out) ==
    /\ gpc = "retry"
    /\ fetches' = Append(fetches,
                         Fetch(withToolSchemaRepairHint(payload).nextPayload, TRUE, out))
    /\ providerRequests' = providerRequests + 1
    /\ payload' = withToolSchemaRepairHint(payload).origPayload
    /\ IF out.threw
         THEN Catch(NetworkError)
         ELSE IF ~ResOk(out.status) /\ isToolCallValidationFailure(out.status, out.body)
         THEN /\ gpc' = "retry"
              /\ UNCHANGED <<keyIndex, repairAttemptedForThisKey, lastErr, groqResult>>
         ELSE Conclude(out)
    /\ UNCHANGED GROQ_API_KEYS
    /\ UNCHANGED <<rlvars, reqvars, toolvars, sessvars, clientvars>>

\* res = await doFetch(repairedPayload), and what follows it
RetryFetch(out) ==
    /\ gpc = "retry"
    /\ fetches' = Append(fetches,
                         Fetch(withToolSchemaRepairHint(payload).nextPayload, TRUE, out))
    /\ providerRequests' = providerRequests + 1
    /\ payload' = withToolSchemaRepairHint(payload).origPayload
    /\ IF out.threw THEN Catch(NetworkError) ELSE Conclude(out)
    /\ UNCHANGED GROQ_API_KEYS
    /\ UNCHANGED <<rlvars, reqvars, toolvars, sessvars, clientvars>>

NextGroqChat ==
    \/ GroqChatStart
    \/ \E out \in FetchOutcomes : FirstFetch(out)
    \/ \E out \in FetchOutcomes : RetryFetch(out)

SpecGroqChat == InitGroqChat /\ [][NextGroqChat]_vars

(***************************************************************************)
(* properties of the agent loop                                            *)
(***************************************************************************)
\* the assistant turns of this request that carried tool calls
ToolCallTurns ==
    SelectSeq(agentMessages,
              LAMBDA m : "tool_calls" \in DOMAIN m /\ m.tool_calls # <<>>)

\* every model round-trip of the request was answered with tool calls
AlwaysAnsweredWithToolCalls ==
    /\ modelCalls >= 1
    /\ Len(ToolCallTurns) = modelCalls

\* C7: a request whose model always answers with tool calls ends after
\* exactly 5 model round-trips with the canned reply and HTTP success, and no
\* request makes more than 5 model round-trips.
C7_IterationCap ==
    /\ modelCalls <= MAX_AGENT_ITERS
    /\ (pc = "done" /\ AlwaysAnsweredWithToolCalls)
         => /\ modelCalls = MAX_AGENT_ITERS
            /\ response.status = 200
            /\ response.reply = maxIterReply

\* a response with text and without tool calls, an empty tool_calls array
\* included
PlainText(msg) ==
    /\ Trim(msg.content) # <<>>
    /\ ("tool_calls" \in DOMAIN msg => msg.tool_calls = <<>>)

\* C8: a model response with plain text and no tool calls (an empty
\* tool_calls list included) ends the loop at that iteration: the reply is
\* that text, the products are the last known product list, and no further
\* model call is made.
C8_PlainTextTerminates ==
    [][(modelCalls' = modelCalls + 1 /\ PlainText(assistantMsg'))
         => /\ pc' = "done"
            /\ response'.status = 200
            /\ response'.reply = Trim(assistantMsg'.content)
            /\ response'.products = lastProducts]_vars

\* the show_products calls of a tool sequence, by position
ShowCalls(tools) == {n \in 1..Len(tools) : tools[n].tool = "show_products"}

\* those that returned at least one product
NonEmptyShowCalls(tools) ==
    {n \in ShowCalls(tools) : Len(tools[n].result.products) > 0}

Max(S) == CHOOSE x \in S : \A y \in S : y <= x

\* the product list of the last call among the positions S, empty if none
LastResult(tools, S) == IF S = {} THEN <<>> ELSE tools[Max(S)].result.products

Terminal == pc = "done" /\ response.status = 200

\* C9 as stated: at every terminal outcome the products are the list
\* returned by the most recent show_products call, empty if there was none.
C9_MostRecentShow ==
    Terminal =>
        response.products = LastResult(toolsUsedInResponse, ShowCalls(toolsUsedInResponse))

\* C9, amended: at every terminal outcome the products are the list returned
\* by the most recent show_products call that returned at least one product,
\* never the raw result of a search_products call, and empty if no
\* show_products call returned a product.
C9_MostRecentNonEmptyShow ==
    Terminal =>
        response.products =
            LastResult(toolsUsedInResponse, NonEmptyShowCalls(toolsUsedInResponse))

\* a search found products, a show_products call returned a different list,
\* a later show_products call returned nothing, and the caller receives the
\* list of the show_products call that returned products
C9_Witness ==
    /\ Terminal
    /\ \E s, n, e \in 1..Len(toolsUsedInResponse) :
          /\ toolsUsedInResponse[s].tool = "search_products"
          /\ Len(toolsUsedInResponse[s].result.products) > 0
          /\ n \in NonEmptyShowCalls(toolsUsedInResponse)
          /\ e \in ShowCalls(toolsUsedInResponse) \ NonEmptyShowCalls(toolsUsedInResponse)
          /\ s < n /\ n < e
          /\ toolsUsedInResponse[n].result.products # toolsUsedInResponse[s].result.products
          /\ response.products = toolsUsedInResponse[n].result.products

\* the logged assistant messages
AssistantRows ==
    {chat_messages[n] : n \in {k \in 1..Len(chat_messages) :
                                  chat_messages[k].role = "assistant"}}

\* the tool sequence logged with an assistant message
ToolSequence(row) == IF row.tools_used = SqlNull THEN <<>> ELSE row.tools_used[1]

\* C10 as stated: products_recommended of a logged assistant message is
\* non-null if and only if a show_products call occurred in that turn's tool
\* sequence.
C10_PopulatedIffShow ==
    \A row \in AssistantRows :
        row.products_recommended # SqlNull <=> ShowCalls(ToolSequence(row)) # {}

\* C10, amended: products_recommended of a logged assistant message is
\* non-null if and only if a show_products call of that turn's tool sequence
\* returned at least one product.
C10_PopulatedIffShowReturnedProducts ==
    \A row \in AssistantRows :
        row.products_recommended # SqlNull <=> NonEmptyShowCalls(ToolSequence(row)) # {}

\* an assistant message logged with the products of a show_products call
\* that followed a search in the same turn
C10_Witness ==
    \E row \in AssistantRows :
        /\ row.products_recommended # SqlNull
        /\ \E s \in 1..Len(ToolSequence(row)) :
              ToolSequence(row)[s].tool = "search_products"
        /\ \E n \in NonEmptyShowCalls(ToolSequence(row)) :
              row.products_recommended = NotNull(ToolSequence(row)[n].result.products)

\* C11: every success response carries a products list of at most 5
\* entries, whatever tool calls the model issued.
C11_AtMostFiveProducts ==
    response.status = 200 => Len(response.products) <= 5

\* the writes of assistant messages issued to the conversation log
AssistantWrites ==
    {n \in 1..Len(logWrites) :
        logWrites[n].kind = "insert" /\ logWrites[n].row.role = "assistant"}

\* C12: whenever a reply has been returned (plain-text success or iteration
\* cap), exactly one assistant-message write carrying the same reply text
\* was issued and answered in this request before.
C12_ReplyLoggedBeforeReturn ==
    Terminal =>
        /\ Cardinality(AssistantWrites) = 1
        /\ \A n \in AssistantWrites : logWrites[n].row.content = response.reply

\* both kinds of terminal outcome with their write: here the canned reply of
\* the iteration cap was returned after a write that failed
C12_Witness ==
    /\ Terminal
    /\ response.reply = maxIterReply
    /\ \E n \in AssistantWrites :
          /\ ~logWrites[n].ok
          /\ logWrites[n].row.content = maxIterReply
    /\ AssistantRows = {}

\* the updates of the session's updated_at issued by this request
TouchWrites == {n \in 1..Len(logWrites) : logWrites[n].kind = "touch"}

\* C13: every request that ends with a caller-visible reply (plain-text
\* success or iteration cap) has updated the session's updated_at.
C13_SessionTouched ==
    Terminal => TouchWrites # {}

(***************************************************************************)
(* properties of admission                                                 *)
(***************************************************************************)
\* the request carries no token or one that is not accepted
Unauthenticated == request.jwt # ValidJwt

\* the request's message is empty after trimming
EmptyMessage == request.body.parses /\ Trim(request.body.message) = <<>>

\* C20: a request that is unauthenticated or whose message is empty after
\* trimming is answered with a non-2xx status, and at no point of its
\* handling is a model call made, a catalog query run, a chat session
\* created or a chat message inserted.
C20_AdmissionErrors ==
    (pc # "idle" /\ (Unauthenticated \/ EmptyMessage))
        => /\ modelCalls = 0
           /\ toolsUsedInResponse = <<>>
           /\ chat_sessions = {}
           /\ logWrites = <<>>
           /\ chat_messages = <<>>
           /\ pc \in {"auth", "ratelimit", "parse", "done"}
           /\ pc = "done" => response.status \notin 200..299

\* an authenticated caller within quota sent a blank message and no
\* session_id: answered 400
C20_Witness ==
    /\ pc = "done"
    /\ request.jwt = ValidJwt
    /\ request.body.parses
    /\ request.body.message = <<" ">>
    /\ request.body.session_id = ""
    /\ response.status = 400
    /\ chat_sessions = {}

(***************************************************************************)
(* properties of the conversation log                                      *)
(***************************************************************************)
\* the request was aborted by the provider call or by a tool call's
\* arguments, not by anything the log did
UpstreamFailure ==
    \/ assistantMsg = [role |-> "assistant", content |-> <<>>]
    \/ /\ "tool_calls" \in DOMAIN assistantMsg
       /\ \E n \in 1..Len(assistantMsg.tool_calls) :
             CoercionThrows(ParseArgs(assistantMsg.tool_calls[n].arguments))

\* the reply the model's answers call for
ExpectedReply ==
    IF iter = MAX_AGENT_ITERS THEN maxIterReply
    ELSE IF Trim(assistantMsg.content) # <<>> THEN Trim(assistantMsg.content)
    ELSE DefaultReply

\* C14: whatever the outcome of the user-message insert, the
\* assistant-message insert and the session update, an admitted request goes
\* on to the model after the user write, and ends with status 200, the reply
\* the model's answers call for and the last product list.
C14_LogFailureHarmless ==
    /\ (logWrites # <<>> /\ modelCalls = 0) => pc = "model"
    /\ (pc = "done" /\ logWrites # <<>> /\ ~UpstreamFailure)
         => /\ response.status = 200
            /\ response.reply = ExpectedReply
            /\ response.products = lastProducts

\* all three writes of a turn failed and the caller still received the
\* reply and the products
C14_Witness ==
    /\ Terminal
    /\ Len(logWrites) = 3
    /\ \A n \in 1..Len(logWrites) : ~logWrites[n].ok
    /\ chat_messages = <<>>
    /\ response.reply = <<"o", "k">>
    /\ Len(response.products) > 0

(***************************************************************************)
(* properties of tool errors                                               *)
(***************************************************************************)
\* the tool-result turns of the context that carry an executor's {error}
CatalogErrorTurns ==
    {n \in 1..Len(agentMessages) :
        /\ agentMessages[n].role = "tool"
        /\ agentMessages[n].name \in KnownTools
        /\ "error" \in DOMAIN agentMessages[n].content}

\* C19: a catalog query failure inside an executor never aborts the request:
\* every failed query shows as an {error} tool result in the model context,
\* the step that met the failure goes on to the next round-trip, and no
\* non-2xx response is produced by it.
C19_ToolErrorsSwallowed ==
    /\ [][dbFailures' > dbFailures
            => /\ pc' \in {"model", "cap"}
               /\ response' = response]_vars
    /\ [](Cardinality(CatalogErrorTurns) = dbFailures)

(***************************************************************************)
(* properties of groqChat                                                  *)
(***************************************************************************)
LastFetch == fetches[Len(fetches)]

\* the outcome is a parsed completion
Succeeded(out) == ~out.threw /\ out.status = 200 /\ out.body = "completion"

\* the provider reported a rate limit, by status or in the body
RateLimited(out) ==
    ~out.threw /\ (out.status = 429 \/ out.body = "rate_limit_exceeded")

\* the provider rejected the tool-call arguments
SchemaValidationFailed(out) ==
    ~out.threw /\ out.status = 400 /\ out.body = "tool_use_failed"

\* the keys of the requests sent so far
KeysTried == {fetches[n].key : n \in 1..Len(fetches)}

\* C15: keys are tried strictly in configured order; a rate-limit response
\* from a key that is not the last makes the next key be tried and raises no
\* error; the result of the first key that succeeds is returned and no
\* request is sent after it.
C15_CredentialRotation ==
    /\ [](\A n \in 1..Len(fetches) :
            /\ fetches[n].key =
                 IF n = 1 THEN GROQ_API_KEYS[1]
                 ELSE IF fetches[n].repaired THEN fetches[n - 1].key
                 ELSE fetches[n - 1].key + 1
            /\ Succeeded(fetches[n].outcome)
                 => /\ n = Len(fetches)
                    /\ gpc = "returned"
                    /\ groqResult = [threw |-> FALSE,
                                     completion |-> [key |-> fetches[n].key,
                                                     body |-> fetches[n].outcome.body]])
    /\ [](gpc = "returned" => fetches # <<>> /\ Succeeded(LastFetch.outcome))
    /\ [][(/\ Len(fetches') = Len(fetches) + 1
           /\ RateLimited(fetches'[Len(fetches')].outcome)
           /\ keyIndex < Len(GROQ_API_KEYS))
            => /\ gpc' = "first"
               /\ keyIndex' = keyIndex + 1
               /\ groqResult' = groqResult]_vars

\* three keys: the first two were rate-limited, the third succeeded and its
\* completion was returned
C15_Witness ==
    /\ Len(GROQ_API_KEYS) = 3
    /\ Len(fetches) = 3
    /\ RateLimited(fetches[1].outcome) /\ fetches[1].key = 1
    /\ RateLimited(fetches[2].outcome) /\ fetches[2].key = 2
    /\ Succeeded(fetches[3].outcome) /\ fetches[3].key = 3
    /\ gpc = "returned"
    /\ groqResult.completion.key = 3

\* C16: each key receives at most 2 requests, the second (the repair retry)
\* only directly after a first request of the same key that failed
\* tool-argument schema validation.
C16_RepairRetryBound ==
    /\ \A k \in KeysTried :
          Cardinality({n \in 1..Len(fetches) : fetches[n].key = k}) <= 2
    /\ \A n \in 1..Len(fetches) :
          IF fetches[n].repaired
            THEN /\ n > 1
                 /\ fetches[n - 1].key = fetches[n].key
                 /\ ~fetches[n - 1].repaired
                 /\ SchemaValidationFailed(fetches[n - 1].outcome)
            ELSE n > 1 => fetches[n - 1].key # fetches[n].key

\* the first and the second request of a key both failed schema validation:
\* exactly 2 requests went to it before groqChat moved to the next key
C16_Witness ==
    /\ Len(fetches) = 3
    /\ fetches[1].key = 1 /\ SchemaValidationFailed(fetches[1].outcome)
    /\ fetches[2].key = 1 /\ SchemaValidationFailed(fetches[2].outcome)
    /\ fetches[2].repaired
    /\ fetches[3].key = 2 /\ ~fetches[3].repaired

\* a final response of a key that is a provider failure other than a rate
\* limit
HardFailure(f) ==
    /\ ~f.outcome.threw
    /\ ~ResOk(f.outcome.status)
    /\ ~RateLimited(f.outcome)
    /\ f.repaired \/ ~SchemaValidationFailed(f.outcome)

\* C17: a provider failure that is not a rate limit is propagated at once:
\* groqChat throws and no remaining key is tried.
C17_HardFailurePropagates ==
    [][(Len(fetches') = Len(fetches) + 1 /\ HardFailure(fetches'[Len(fetches')]))
         => /\ gpc' = "thrown"
            /\ groqResult'.threw]_vars

\* the last request ended in a network or response-parse failure
NetworkOrParseFailure(out) ==
    out.threw \/ (ResOk(out.status) /\ out.body # "completion")

\* C18: groqChat throws for a network or response-parse failure only when
\* every configured key has been tried, and the error then carries the
\* detail of the last request made: the fetch error, or the body.
C18_FailsAfterAllKeys ==
    (gpc = "thrown" /\ fetches # <<>> /\ NetworkOrParseFailure(LastFetch.outcome))
        => /\ KeysTried = {GROQ_API_KEYS[n] : n \in 1..Len(GROQ_API_KEYS)}
           /\ LastFetch.key = GROQ_API_KEYS[Len(GROQ_API_KEYS)]
           /\ groqResult.threw
           /\ groqResult.error.kind = "fetch"
           /\ IF LastFetch.outcome.threw
                THEN groqResult.error.detail = [kind |-> "network"]
                ELSE groqResult.error.detail =
                        [kind |-> "parse", body |-> LastFetch.outcome.body]

\* three keys failed in turn on the network, and the last answered a body
\* that is not JSON: groqChat threw with that body
C18_Witness ==
    /\ gpc = "thrown"
    /\ Len(GROQ_API_KEYS) = 3
    /\ Len(fetches) = 3
    /\ fetches[1].outcome.threw
    /\ fetches[2].outcome.threw
    /\ ~fetches[3].outcome.threw /\ fetches[3].outcome.body = "not json"
    /\ groqResult.error.detail.kind = "parse"

(***************************************************************************)
(* Rate-limited requests (checked under Spec)                              *)
(***************************************************************************)
\* the limiter answered allowed = false to this request
Denied == rl # NoResult /\ rl.allowed = FALSE

\* ticks from the handler's Date.now() to the limiter's reset_at
TicksUntilReset == rl.reset_at * TicksPerSecond - dateNow

\* C21: when the limiter answers allowed = false the request is answered 429
\* with a retry-after that is the time left until reset_at in whole seconds,
\* rounded up, at least 1 and at most the window; no session is created, no
\* message is logged and no model call is made for it
C21_RateLimitRejection ==
    Denied =>
        /\ pc = "done"
        /\ response.status = 429
        /\ response.retry_after \in 1..p_window_seconds
        /\ response.retry_after * TicksPerSecond >= TicksUntilReset
        /\ response.retry_after > 1 =>
               (response.retry_after - 1) * TicksPerSecond < TicksUntilReset
        /\ chat_sessions = {}
        /\ logWrites = <<>>
        /\ chat_messages = <<>>
        /\ modelCalls = 0

\* a rejection whose remaining time is not a whole number of seconds
C21_Witness ==
    /\ Denied
    /\ response.status = 429
    /\ response.retry_after = 2
    /\ TicksUntilReset % TicksPerSecond # 0

(***************************************************************************)
(* Assistant messages and aborted requests (checked under Spec)            *)
(***************************************************************************)
\* the request was aborted by a failure of the provider call
ProviderFailure ==
    /\ pc = "done"
    /\ modelCalls > 0
    /\ assistantMsg = [role |-> "assistant", content |-> <<>>]

\* C22: a request logs at most one assistant message, and only when it ends
\* with a reply to the caller; a request aborted by a provider failure is
\* answered with the internal-failure status and logs no assistant message
C22_AssistantLoggedOnlyWithReply ==
    /\ Cardinality(AssistantWrites) <= 1
    /\ Cardinality(AssistantRows) <= 1
    /\ AssistantWrites # {} => Terminal
    /\ ProviderFailure =>
          /\ response = InternalError
          /\ AssistantWrites = {}
          /\ AssistantRows = {}

\* the provider failed after a round of tool calls: the user message of the
\* turn is in the log, no assistant message is
C22_Witness ==
    /\ ProviderFailure
    /\ modelCalls > 1
    /\ toolsUsedInResponse # <<>>
    /\ Len(chat_messages) = 1
    /\ chat_messages[1].role = "user"

(***************************************************************************)
(* Text, expandQuery and the catalog queries of the tool executors         *)
(* (a character outside ASCII is written by its code point)                *)
(***************************************************************************)
UpperToLower ==
    ("A" :> "a") @@ ("B" :> "b") @@ ("C" :> "c") @@ ("D" :> "d") @@ ("E" :> "e") @@ ("F" :> "f") @@ ("G" :> "g") @@ ("H" :> "h") @@ ("I" :> "i")
    @@ ("J" :> "j") @@ ("K" :> "k") @@ ("L" :> "l") @@ ("M" :> "m") @@ ("N" :> "n") @@ ("O" :> "o") @@ ("P" :> "p") @@ ("Q" :> "q") @@ ("R" :> "r")
    @@ ("S" :> "s") @@ ("T" :> "t") @@ ("U" :> "u") @@ ("V" :> "v") @@ ("W" :> "w") @@ ("X" :> "x") @@ ("Y" :> "y") @@ ("Z" :> "z")

\* String.prototype.toLowerCase
toLowerCase(s) ==
    [n \in 1..Len(s) |-> IF s[n] \in DOMAIN UpperToLower THEN UpperToLower[s[n]] ELSE s[n]]

\* the first position of s that holds a space, Len(s) + 1 when there is none
WordEnd(s) ==
    IF \E n \in 1..Len(s) : IsSpace(s[n])
      THEN CHOOSE n \in 1..Len(s) : IsSpace(s[n]) /\ \A k \in 1..(n - 1) : ~IsSpace(s[k])
      ELSE Len(s) + 1

RECURSIVE SplitWords(_)
\* s.split(/\s+/) of a trimmed text, and .filter(Boolean) of any text
SplitWords(s) ==
    LET t == TrimStart(s) IN
    IF t = <<>> THEN <<>>
    ELSE <<SubSeq(t, 1, WordEnd(t) - 1)>> \o SplitWords(SubSeq(t, WordEnd(t), Len(t)))

RECURSIVE JoinWords(_)
\* words.join(" ")
JoinWords(words) ==
    IF words = <<>> THEN <<>>
    ELSE IF Len(words) = 1 THEN words[1]
    ELSE words[1] \o <<" ">> \o JoinWords(Tail(words))

\* q.replace(/[,%]/g, " ").trim()
sanitizeQuery(q) == Trim([n \in 1..Len(q) |-> IF q[n] \in {",", "%"} THEN " " ELSE q[n]])

\* "Common tech term synonyms": the own properties of the object literal
QUERY_SYNONYMS ==
       (<<"s", "t", "y", "l", "u", "s">> :> <<"S", " ", "P", "e", "n">>)
    @@ (<<"U+0633", "U+062A", "U+0627", "U+064A", "U+0644", "U+0633">> :> <<"S", " ", "P", "e", "n">>)
    @@ (<<"U+0642", "U+0644", "U+0645">> :> <<"S", " ", "P", "e", "n">>)
    @@ (<<"f", "o", "l", "d", "a", "b", "l", "e">> :> <<"f", "o", "l", "d", "a", "b", "l", "e">>)
    @@ (<<"U+0641", "U+0648", "U+0644", "U+062F", "U+0627", "U+0628", "U+0644">> :> <<"f", "o", "l", "d", "a", "b", "l", "e">>)
    @@ (<<"U+0642", "U+0627", "U+0628", "U+0644", " ", "U+0644", "U+0644", "U+0637", "U+064A">> :> <<"f", "o", "l", "d", "a", "b", "l", "e">>)
    @@ (<<"t", "w", "s">> :> <<"t", "r", "u", "e", " ", "w", "i", "r", "e", "l", "e", "s", "s">>)
    @@ (<<"a", "n", "c">> :> <<"n", "o", "i", "s", "e", " ", "c", "a", "n", "c", "e", "l", "l">>)
    @@ (<<"n", "o", "i", "s", "e", " ", "c", "a", "n", "c", "e", "l", "l", "i", "n", "g">> :> <<"n", "o", "i", "s", "e", " ", "c", "a", "n", "c", "e", "l", "l">>)
    @@ (<<"U+0625", "U+0644", "U+063A", "U+0627", "U+0621", " ", "U+0627", "U+0644", "U+0636", "U+0648", "U+0636", "U+0627", "U+0621">> :> <<"n", "o", "i", "s", "e", " ", "c", "a", "n", "c", "e", "l", "l">>)
    @@ (<<"U+0633", "U+0645", "U+0627", "U+0639", "U+0629">> :> <<"h", "e", "a", "d", "p", "h", "o", "n", "e">>)
    @@ (<<"U+0633", "U+0645", "U+0627", "U+0639", "U+0627", "U+062A">> :> <<"h", "e", "a", "d", "p", "h", "o", "n", "e">>)
    @@ (<<"U+0627", "U+064A", "U+0631", "U+0628", "U+0648", "U+062F", "U+0632">> :> <<"e", "a", "r", "b", "u", "d", "s">>)
    @@ (<<"U+0627", "U+064A", "U+0631", "U+0628", "U+0648", "U+062F">> :> <<"e", "a", "r", "b", "u", "d", "s">>)
    @@ (<<"g", "a", "m", "i", "n", "g">> :> <<"g", "a", "m", "i", "n", "g">>)
    @@ (<<"U+062C", "U+064A", "U+0645", "U+064A", "U+0646", "U+062C">> :> <<"g", "a", "m", "i", "n", "g">>)
    @@ (<<"U+0623", "U+0644", "U+0639", "U+0627", "U+0628">> :> <<"g", "a", "m", "i", "n", "g">>)
    @@ (<<"U+0634", "U+0627", "U+062D", "U+0646">> :> <<"c", "h", "a", "r", "g", "e", "r">>)
    @@ (<<"U+0643", "U+064A", "U+0628", "U+0648", "U+0631", "U+062F">> :> <<"k", "e", "y", "b", "o", "a", "r", "d">>)
    @@ (<<"U+0644", "U+0648", "U+062D", "U+0629", " ", "U+0645", "U+0641", "U+0627", "U+062A", "U+064A", "U+062D">> :> <<"k", "e", "y", "b", "o", "a", "r", "d">>)
    @@ (<<"U+0645", "U+0627", "U+0648", "U+0633">> :> <<"m", "o", "u", "s", "e">>)
    @@ (<<"U+0641", "U+0623", "U+0631", "U+0629">> :> <<"m", "o", "u", "s", "e">>)
    @@ (<<"U+0645", "U+0627", "U+0648", "U+0633", " ", "U+0628", "U+0627", "U+062F">> :> <<"m", "o", "u", "s", "e", " ", "p", "a", "d">>)
    @@ (<<"U+0643", "U+0646", "U+062A", "U+0631", "U+0648", "U+0644", "U+0631">> :> <<"c", "o", "n", "t", "r", "o", "l", "l", "e", "r">>)
    @@ (<<"U+064A", "U+062F", " ", "U+062A", "U+062D", "U+0643", "U+0645">> :> <<"c", "o", "n", "t", "r", "o", "l", "l", "e", "r">>)
    @@ (<<"U+0648", "U+064A", "U+0628", " ", "U+0643", "U+0627", "U+0645">> :> <<"w", "e", "b", "c", "a", "m">>)
    @@ (<<"U+0643", "U+0627", "U+0645", "U+064A", "U+0631", "U+0627">> :> <<"w", "e", "b", "c", "a", "m", " ", "c", "a", "m", "e", "r", "a">>)
    @@ (<<"U+0645", "U+0627", "U+064A", "U+0643">> :> <<"m", "i", "c", "r", "o", "p", "h", "o", "n", "e">>)
    @@ (<<"U+0645", "U+064A", "U+0643", "U+0631", "U+0648", "U+0641", "U+0648", "U+0646">> :> <<"m", "i", "c", "r", "o", "p", "h", "o", "n", "e">>)
    @@ (<<"U+0647", "U+0627", "U+0628">> :> <<"h", "u", "b">>)
    @@ (<<"U+0633", "U+0631", "U+064A", "U+0639">> :> <<"f", "a", "s", "t">>)
    @@ (<<"U+0644", "U+0627", "U+0633", "U+0644", "U+0643", "U+064A">> :> <<"w", "i", "r", "e", "l", "e", "s", "s">>)
    @@ (<<"U+0633", "U+0644", "U+0643", "U+064A">> :> <<"w", "i", "r", "e", "d">>)
    @@ (<<"U+0645", "U+064A", "U+0643", "U+0627", "U+0646", "U+064A", "U+0643", "U+064A">> :> <<"m", "e", "c", "h", "a", "n", "i", "c", "a", "l">>)

\* the lower-case property names an object literal inherits from Object.prototype
ObjectPrototypeKeys ==
    {<<"c", "o", "n", "s", "t", "r", "u", "c", "t", "o", "r">>,
     <<"_", "_", "p", "r", "o", "t", "o", "_", "_">>}

\* a value that is not a string: the inherited member of that name
ObjectMember(key) == [t |-> "object", member |-> key]

\* what String(...) / join make of a value
TextOf(x) ==
    IF x.t = "str" THEN x.v
    ELSE IF x.member = <<"c", "o", "n", "s", "t", "r", "u", "c", "t", "o", "r">>
      THEN <<"function Object() { [native code] }">>
      ELSE <<"[object Object]">>

\* QUERY_SYNONYMS[key]: an own entry, an inherited member, or undefined
Lookup(key) ==
    IF key \in DOMAIN QUERY_SYNONYMS THEN JStr(QUERY_SYNONYMS[key])
    ELSE IF key \in ObjectPrototypeKeys THEN ObjectMember(key)
    ELSE JNull

\* expandQuery(q) for a string q
expandQuery(q) ==
    LET lower == Trim(toLowerCase(q))
        words == SplitWords(lower)
        expandedWords == [n \in 1..Len(words) |->
                            IF Lookup(words[n]) # JNull THEN Lookup(words[n])
                            ELSE JStr(words[n])]
        expanded == JoinWords([n \in 1..Len(words) |-> TextOf(expandedWords[n])])
    IN IF Lookup(lower) # JNull THEN Lookup(lower)
       ELSE IF expanded # lower THEN JStr(expanded) ELSE JStr(q)

\* q.toLowerCase is not a function
TypeError == [t |-> "TypeError"]

\* expandQuery applied to a value it returned
ExpandValue(x) == IF x.t = "str" THEN expandQuery(x.v) ELSE TypeError

\* texts built from table keys, table values and unmapped words
ExpandInputs ==
    { <<"s", "t", "y", "l", "u", "s">>,
      <<"S", "t", "y", "l", "u", "s">>,
      <<"S", " ", "P", "e", "n">>,
      <<"x", " ", "s", "t", "y", "l", "u", "s">>,
      <<"n", "o", "i", "s", "e", " ", "c", "a", "n", "c", "e", "l", "l", "i", "n", "g">>,
      <<"n", "o", "i", "s", "e", " ", " ", "c", "a", "n", "c", "e", "l", "l", "i", "n", "g">>,
      <<"t", "w", "s", " ", "a", "n", "c">>,
      <<"g", "a", "m", "i", "n", "g", " ", "l", "a", "p", "t", "o", "p">>,
      <<"L", "a", "p", "t", "o", "p">>,
      <<" ", "l", "a", "p", "t", "o", "p", " ">>,
      <<"f", "a", "s", "t", " ", " ", "c", "h", "a", "r", "g", "e", "r">>,
      <<"f", "o", "l", "d", "a", "b", "l", "e">>,
      <<"w", "e", "b", "c", "a", "m", " ", "c", "a", "m", "e", "r", "a">>,
      <<"U+0645", "U+0627", "U+0648", "U+0633", " ", "U+0628", "U+0627", "U+062F">>,
      <<"U+0645", "U+0627", "U+0648", "U+0633">>,
      <<"U+0642", "U+0627", "U+0628", "U+0644", " ", "U+0644", "U+0644", "U+0637", "U+064A">>,
      <<"U+0642", "U+0627", "U+0628", "U+0644", " ", " ", "U+0644", "U+0644", "U+0637", "U+064A">>,
      <<"U+0643", "U+0627", "U+0645", "U+064A", "U+0631", "U+0627">>,
      <<"c", "o", "n", "s", "t", "r", "u", "c", "t", "o", "r">>,
      <<"u", "s", "b", " ", "c", "o", "n", "s", "t", "r", "u", "c", "t", "o", "r">>,
      <<"_", "_", "p", "r", "o", "t", "o", "_", "_">> }

\* name, brand, description and specs of the catalog's products, two variants
ProductTextsA ==
    << [name |-> <<"F", "a", "s", "t", " ", "C", "h", "a", "r", "g", "e", "r">>, brand |-> <<"A", "n", "k", "e", "r">>,
        description |-> <<"u", "s", "b", "_", "c", " ", "c", "h", "a", "r", "g", "e", "r">>, specs |-> <<"2", "0", "W">>],
       [name |-> <<"U", "S", "B", "-", "C", " ", "H", "u", "b">>, brand |-> <<"A", "n", "k", "e", "r">>,
        description |-> <<"h", "u", "b">>, specs |-> <<"4", " ", "p", "o", "r", "t", "s">>],
       [name |-> <<"E", "a", "r", "b", "u", "d", "s">>, brand |-> <<"S", "o", "n", "y">>,
        description |-> <<"t", "r", "u", "e", " ", "w", "i", "r", "e", "l", "e", "s", "s">>, specs |-> <<"A", "N", "C">>],
       [name |-> <<"G", "a", "l", "a", "x", "y">>, brand |-> <<"S", "a", "m", "s", "u", "n", "g">>,
        description |-> <<"S", " ", "P", "e", "n", " ", "p", "h", "o", "n", "e">>, specs |-> <<>>],
       [name |-> <<"L", "a", "p", "t", "o", "p">>, brand |-> <<"L", "e", "n", "o", "v", "o">>,
        description |-> <<"g", "a", "m", "i", "n", "g", " ", "l", "a", "p", "t", "o", "p">>, specs |-> <<>>],
       [name |-> <<"M", "a", "c", "B", "o", "o", "k">>, brand |-> <<"A", "p", "p", "l", "e">>,
        description |-> <<>>, specs |-> <<"M", "3">>] >>
ProductTextsB ==
    << [name |-> <<"C", "h", "a", "r", "g", "e", "r", " ", "1">>, brand |-> <<"A", "n", "k", "e", "r">>,
        description |-> <<>>, specs |-> <<>>],
       [name |-> <<"C", "h", "a", "r", "g", "e", "r", " ", "2">>, brand |-> <<"A", "n", "k", "e", "r">>,
        description |-> <<>>, specs |-> <<>>],
       [name |-> <<"C", "h", "a", "r", "g", "e", "r", " ", "3">>, brand |-> <<"A", "n", "k", "e", "r">>,
        description |-> <<>>, specs |-> <<>>],
       [name |-> <<"C", "h", "a", "r", "g", "e", "r", " ", "4">>, brand |-> <<"A", "n", "k", "e", "r">>,
        description |-> <<>>, specs |-> <<>>],
       [name |-> <<"C", "h", "a", "r", "g", "e", "r", " ", "5">>, brand |-> <<"A", "n", "k", "e", "r">>,
        description |-> <<>>, specs |-> <<>>],
       [name |-> <<"C", "h", "a", "r", "g", "e", "r", " ", "6">>, brand |-> <<"A", "n", "k", "e", "r">>,
        description |-> <<>>, specs |-> <<>>] >>

\* the category names as texts
CategoryText ==
    ("accessory" :> <<"a", "c", "c", "e", "s", "s", "o", "r", "y">>)
    @@ ("audio" :> <<"a", "u", "d", "i", "o">>)
    @@ ("phone" :> <<"p", "h", "o", "n", "e">>)
    @@ ("laptop" :> <<"l", "a", "p", "t", "o", "p">>)

\* public.products with its text columns
WithTexts(rows, texts) ==
    [n \in 1..Len(rows) |->
        [id |-> rows[n].id, price |-> rows[n].price, category |-> CategoryText[rows[n].category],
         name |-> texts[n].name, brand |-> texts[n].brand,
         description |-> texts[n].description, specs |-> texts[n].specs]]

ProductTables == {WithTexts(Catalog, ProductTextsA), WithTexts(Catalog, ProductTextsB)}

RECURSIVE Like(_, _)
\* SQL LIKE: % stands for any text, _ for any one character
Like(pattern, text) ==
    IF pattern = <<>> THEN text = <<>>
    ELSE IF Head(pattern) = "%"
      THEN Like(Tail(pattern), text) \/ (text # <<>> /\ Like(pattern, Tail(text)))
    ELSE IF Head(pattern) = "_"
      THEN text # <<>> /\ Like(Tail(pattern), Tail(text))
    ELSE text # <<>> /\ Head(pattern) = Head(text) /\ Like(Tail(pattern), Tail(text))

\* column.ilike.pattern
ILike(pattern, text) == Like(toLowerCase(pattern), toLowerCase(text))

\* an absent property of args
Undefined == [t |-> "undefined"]

\* args?.key
ArgOf(args, key) ==
    IF args.t = "obj" /\ key \in DOMAIN args.v THEN args.v[key] ELSE Undefined

\* the truth value JavaScript gives a value
Truthy(x) ==
    CASE x.t \in {"undefined", "null"} -> FALSE
      [] x.t = "str" -> x.v # <<>>
      [] x.t = "num" -> x.v # 0
      [] OTHER -> TRUE

\* .limit(5)
SearchLimit == 5

\* mutant: the query has no limit
Limit_None(rows) == rows

\* the first SearchLimit rows
Limit(rows) == IF Len(rows) <= SearchLimit THEN rows ELSE SubSeq(rows, 1, SearchLimit)

RECURSIVE InsertByPrice(_, _, _)
\* a row put after the rows that come before or beside it in the order
InsertByPrice(sorted, row, ascending) ==
    IF sorted = <<>> THEN <<row>>
    ELSE IF (ascending /\ Head(sorted).price <= row.price)
            \/ (~ascending /\ Head(sorted).price >= row.price)
      THEN <<Head(sorted)>> \o InsertByPrice(Tail(sorted), row, ascending)
      ELSE <<row>> \o sorted

RECURSIVE OrderByPrice(_, _)
\* .order("price", { ascending })
OrderByPrice(rows, ascending) ==
    IF rows = <<>> THEN <<>>
    ELSE InsertByPrice(OrderByPrice(SubSeq(rows, 1, Len(rows) - 1), ascending),
                       rows[Len(rows)], ascending)

\* the constants of execSearchProducts, and the query it builds from them:
\* keywordsThrow when query.trim is not a function
SearchPlan(args) ==
    LET rawQuery == IF Truthy(ArgOf(args, "query"))
                      THEN sanitizeQuery(TextOf(ArgOf(args, "query"))) ELSE <<>>
        query == IF rawQuery # <<>> THEN expandQuery(rawQuery) ELSE JStr(<<>>)
    IN [category |-> IF Truthy(ArgOf(args, "category"))
                       THEN JStr(TextOf(ArgOf(args, "category"))) ELSE JNull,
        brand |-> IF Truthy(ArgOf(args, "brand"))
                    THEN JStr(sanitizeQuery(TextOf(ArgOf(args, "brand")))) ELSE JNull,
        minPrice |-> IF ArgOf(args, "min_price").t = "num"
                       THEN ArgOf(args, "min_price") ELSE JNull,
        maxPrice |-> IF ArgOf(args, "max_price").t = "num"
                       THEN ArgOf(args, "max_price") ELSE JNull,
        sort |-> IF Truthy(ArgOf(args, "sort")) THEN TextOf(ArgOf(args, "sort")) ELSE <<>>,
        keywordsThrow |-> Truthy(query) /\ query.t # "str",
        keywords |-> IF Truthy(query) /\ query.t = "str"
                       THEN SplitWords(Trim(query.v)) ELSE <<>>]

\* the or(...) filter: any keyword in any of the four columns
MatchesKeywords(row, keywords) ==
    \E k \in 1..Len(keywords) :
        LET pattern == <<"%">> \o keywords[k] \o <<"%">> IN
        \/ ILike(pattern, row.name)
        \/ ILike(pattern, row.description)
        \/ ILike(pattern, row.brand)
        \/ ILike(pattern, row.specs)

\* the filters of the query, all of them
MatchesPlan(row, plan) ==
    /\ plan.category # JNull => row.category = plan.category.v
    /\ plan.brand # JNull => ILike(<<"%">> \o plan.brand.v \o <<"%">>, row.brand)
    /\ plan.minPrice # JNull => row.price >= plan.minPrice.v
    /\ plan.maxPrice # JNull => row.price <= plan.maxPrice.v
    /\ plan.keywords # <<>> => MatchesKeywords(row, plan.keywords)

\* .select("id,name,price,category,brand,image_url")
Selected(row) ==
    [id |-> row.id, name |-> row.name, price |-> row.price, category |-> row.category,
     brand |-> row.brand]

\* what the catalog answers to the query: filter, order, limit, select
RunSearch(plan, table) ==
    LET matching == SelectSeq(table, LAMBDA row : MatchesPlan(row, plan))
        ordered == IF plan.sort = <<"p", "r", "i", "c", "e", "_", "a", "s", "c">> THEN OrderByPrice(matching, TRUE)
                   ELSE IF plan.sort = <<"p", "r", "i", "c", "e", "_", "d", "e", "s", "c">> THEN OrderByPrice(matching, FALSE)
                   ELSE matching
        limited == Limit(ordered)
    IN [n \in 1..Len(limited) |-> Selected(limited[n])]

\* the args objects handed to search_products
SearchQueries ==
    { <<"c", "h", "a", "r", "g", "e", "r">>,
      <<"u", "s", "b", "_", "c">>,
      <<"S", "t", "y", "l", "u", "s">>,
      <<"z", "z", "z">>,
      <<"%", ",">>,
      <<"c", "o", "n", "s", "t", "r", "u", "c", "t", "o", "r">> }
SearchArgs ==
    {JObj([query |-> qy, category |-> ca, brand |-> br, min_price |-> lo,
           max_price |-> hi, sort |-> so]) :
        qy \in {Undefined} \cup {JStr(x) : x \in SearchQueries},
        ca \in {Undefined, JStr(<<"a", "c", "c", "e", "s", "s", "o", "r", "y">>)},
        br \in {Undefined, JStr(<<"a", "n", "k", "e", "r">>)},
        lo \in {Undefined, JNum(200)},
        hi \in {Undefined, JNull, JNum(900)},
        so \in {Undefined, JStr(<<"p", "r", "i", "c", "e", "_", "d", "e", "s", "c">>)}}

\* the args objects handed to show_products
ShowArgs ==
    {JNull, EmptyObject,
     JObj([ids |-> JList(<<>>)]),
     JObj([ids |-> JStr("p1")]),
     JObj([ids |-> JList(<<JStr(""), JStr("")>>)]),
     JObj([ids |-> JList(<<JStr("p1"), JStr(""), JStr("p9")>>)])}

InitTools ==
    /\ p_window_seconds = 1
    /\ p_max_count = 1
    /\ RateLimiterAtRest
    /\ HandlerAtRest
    /\ GroqAtRest
    /\ SessionsAtRest
    /\ ClientAtRest
    /\ productsTable \in ProductTables
    /\ tpc = "idle"
    /\ toolArgs = JNull
    /\ toolReturn = [threw |-> FALSE, tool |-> "none"]
    /\ catalogQueries = <<>>
    /\ expansions = <<>>

\* expandQuery is applied to a text
ExpandQuery(q) ==
    /\ tpc = "idle"
    /\ expansions' = <<JStr(q), expandQuery(q)>>
    /\ tpc' = "expanded"
    /\ UNCHANGED <<productsTable, toolArgs, toolReturn, catalogQueries>>
    /\ UNCHANGED <<rlvars, reqvars, gqvars, sessvars, clientvars>>

\* expandQuery is applied to what it returned
ExpandAgain ==
    /\ tpc = "expanded"
    /\ expansions' = Append(expansions, ExpandValue(expansions[Len(expansions)]))
    /\ tpc' = "done"
    /\ UNCHANGED <<productsTable, toolArgs, toolReturn, catalogQueries>>
    /\ UNCHANGED <<rlvars, reqvars, gqvars, sessvars, clientvars>>

\* execSearchProducts(adminClient, args); dbOk: the query returns no error
SearchProducts(args, dbOk) ==
    LET plan == SearchPlan(args) IN
    /\ tpc = "idle"
    /\ toolArgs' = args
    /\ IF plan.keywordsThrow
         THEN /\ toolReturn' = [threw |-> TRUE, tool |-> "search_products"]
              /\ UNCHANGED catalogQueries
         ELSE /\ catalogQueries' = Append(catalogQueries, [query |-> plan, failed |-> ~dbOk])
              /\ toolReturn' =
                    [threw |-> FALSE, tool |-> "search_products",
                     result |-> execSearchProducts(args,
                                    IF dbOk THEN DbOk(RunSearch(plan, productsTable))
                                    ELSE DbError)]
    /\ tpc' = "done"
    /\ UNCHANGED <<productsTable, expansions>>
    /\ UNCHANGED <<rlvars, reqvars, gqvars, sessvars, clientvars>>

\* execShowProducts(adminClient, args); dbOk: the query returns no error
ShowProducts(args, dbOk) ==
    /\ tpc = "idle"
    /\ toolArgs' = args
    /\ catalogQueries' = IF Len(NormalizedIds(args)) = 0 THEN catalogQueries
                         ELSE Append(catalogQueries,
                                     [query |-> NormalizedIds(args), failed |-> ~dbOk])
    /\ toolReturn' = [threw |-> FALSE, tool |-> "show_products",
                      result |-> execShowProducts(args, IF dbOk THEN DbWorks ELSE DbError)]
    /\ tpc' = "done"
    /\ UNCHANGED <<productsTable, expansions>>
    /\ UNCHANGED <<rlvars, reqvars, gqvars, sessvars, clientvars>>

NextTools ==
    \/ \E q \in ExpandInputs : ExpandQuery(q)
    \/ ExpandAgain
    \/ \E args \in SearchArgs, dbOk \in BOOLEAN : SearchProducts(args, dbOk)
    \/ \E args \in ShowArgs, dbOk \in BOOLEAN : ShowProducts(args, dbOk)

SpecTools == InitTools /\ [][NextTools]_vars

(***************************************************************************)
(* Properties of the tool executors (checked under SpecTools)              *)
(***************************************************************************)
\* a call of the named executor has ended, by a return or an exception
Called(tool) == tpc = "done" /\ toolReturn.tool = tool

\* the call returned a result
Returned(tool) == Called(tool) /\ ~toolReturn.threw

\* the rows of the table that pass the filters of the call
MatchingRows ==
    {n \in 1..Len(productsTable) : MatchesPlan(productsTable[n], SearchPlan(toolArgs))}

\* C23: whatever the filters and the catalog, search_products returns at
\* most 5 products
C23_SearchCap ==
    Returned("search_products") => Len(toolReturn.result.products) <= 5

\* more than five products pass the filters and five are returned
C23_Witness ==
    /\ Returned("search_products")
    /\ Cardinality(MatchingRows) > 5
    /\ Len(toolReturn.result.products) = 5
    /\ ArgOf(toolArgs, "query") # Undefined

\* the word occurs in the text, whatever the case of the letters
Contains(text, word) ==
    \E n \in 1..(Len(text) - Len(word) + 1) :
        SubSeq(toLowerCase(text), n, n + Len(word) - 1) = toLowerCase(word)

\* the row of the table a returned product was selected from
RowOf(product) ==
    CHOOSE row \in {productsTable[n] : n \in 1..Len(productsTable)} : row.id = product.id

\* the keywords of the normalized query of the call
Keywords == SearchPlan(toolArgs).keywords

\* C24: every product search_products returns satisfies every supplied
\* filter: its category equals the argument, its brand contains the brand
\* argument, its price lies within min_price and max_price (inclusive), and
\* when a query is given at least one keyword of the normalized query occurs
\* in its name, description, brand or specs (letter case aside)
C24_SearchFilters ==
    Returned("search_products") =>
        \A n \in 1..Len(toolReturn.result.products) :
            LET row == RowOf(toolReturn.result.products[n]) IN
            /\ Truthy(ArgOf(toolArgs, "category"))
                 => row.category = ArgOf(toolArgs, "category").v
            /\ Truthy(ArgOf(toolArgs, "brand"))
                 => Contains(row.brand, ArgOf(toolArgs, "brand").v)
            /\ ArgOf(toolArgs, "min_price").t = "num"
                 => row.price >= ArgOf(toolArgs, "min_price").v
            /\ ArgOf(toolArgs, "max_price").t = "num"
                 => row.price <= ArgOf(toolArgs, "max_price").v
            /\ Keywords # <<>>
                 => \E k \in 1..Len(Keywords) :
                       \/ Contains(row.name, Keywords[k])
                       \/ Contains(row.description, Keywords[k])
                       \/ Contains(row.brand, Keywords[k])
                       \/ Contains(row.specs, Keywords[k])

\* C25: search_products always returns a structured result and never
\* throws, for every args object and query text: the result has an error
\* key exactly when the catalog query failed (products is then empty), and a
\* search that matches nothing returns an empty products list and no error
C25_SearchNeverThrows ==
    Called("search_products") =>
        /\ ~toolReturn.threw
        /\ "products" \in DOMAIN toolReturn.result
        /\ "error" \in DOMAIN toolReturn.result
              <=> \E n \in 1..Len(catalogQueries) : catalogQueries[n].failed
        /\ "error" \in DOMAIN toolReturn.result => toolReturn.result.products = <<>>
        /\ MatchingRows = {} => toolReturn.result.products = <<>>

\* the ids of the args are missing, not a list, or a list of empty texts
NoUsableIds(args) ==
    \/ args.t # "obj"
    \/ "ids" \notin DOMAIN args.v
    \/ args.v["ids"].t # "list"
    \/ \A n \in 1..Len(args.v["ids"].v) : args.v["ids"].v[n] = JStr("")

\* C26: show_products called with an empty ids list, with ids that are all
\* empty after normalization, or with missing or non-list ids, returns
\* {products: []} and sends no query to the catalog
C26_ShowWithoutIds ==
    (Called("show_products") /\ NoUsableIds(toolArgs)) =>
        /\ toolReturn.threw = FALSE
        /\ toolReturn.result = [products |-> <<>>]
        /\ catalogQueries = <<>>

\* a list of two empty ids was shown
C26_Witness ==
    /\ Called("show_products")
    /\ toolArgs = JObj([ids |-> JList(<<JStr(""), JStr("")>>)])
    /\ toolReturn.result = [products |-> <<>>]
    /\ catalogQueries = <<>>

\* C27: expandQuery is idempotent on every text built from table keys,
\* table values and unmapped words: expanding what it returned returns the
\* same again
C27_ExpansionIdempotent ==
    Len(expansions) = 3 => expansions[3] = expansions[2]

\* the table entry of each word that has one, the word itself otherwise
MappedWords(words) ==
    [n \in 1..Len(words) |->
        IF words[n] \in DOMAIN QUERY_SYNONYMS THEN QUERY_SYNONYMS[words[n]] ELSE words[n]]

\* the expansion of a text as the table defines it
TableExpansion(q) ==
    LET lower == Trim(toLowerCase(q))
        joined == JoinWords(MappedWords(SplitWords(lower)))
    IN IF lower \in DOMAIN QUERY_SYNONYMS THEN QUERY_SYNONYMS[lower]
       ELSE IF joined # lower THEN joined ELSE q

\* C28: expandQuery returns the table entry of the whole lowercased, trimmed
\* text when that text is a key of the table; otherwise it maps each word
\* through the table, leaves the other words as they are, joins the words
\* with single spaces, and returns the text it was given when that makes no
\* difference
C28_ExpansionByTable ==
    Len(expansions) >= 2 => expansions[2] = JStr(TableExpansion(expansions[1].v))

(***************************************************************************)
(* The conversation log under concurrent requests: every await of the      *)
(* handler that writes to chat_sessions or chat_messages is a step         *)
(***************************************************************************)
\* the sessions that exist before the requests: one of each identity
ExistingSessions ==
    {[id |-> "s1", user_id |-> "u1", touchedBy |-> {}],
     [id |-> "s2", user_id |-> "u2", touchedBy |-> {}]}

\* body.session_id: absent, a session of "u1", a session of "u2", an id of no session
SuppliedSessionIds == {"", "s1", "s2", "s9"}

\* gen_random_uuid() for the session a request creates
NewSessionId(r) == IF r = "r1" THEN "n1" ELSE "n2"

\* REFERENCES chat_sessions(id): the insert of a message needs its session
SessionExists(sid) == \E row \in sessionsTable : row.id = sid

InitSessions ==
    /\ p_window_seconds = 1
    /\ p_max_count = 1
    /\ RateLimiterAtRest
    /\ HandlerAtRest
    /\ GroqAtRest
    /\ ToolsAtRest
    /\ ClientAtRest
    /\ sessionsTable = ExistingSessions
    /\ messagesTable = <<>>
    /\ spc = [r \in HandlerRequests |-> "idle"]
    /\ caller = [r \in HandlerRequests |-> "u1"]
    /\ sessionId = [r \in HandlerRequests |-> ""]
    /\ sessionOf = [r \in HandlerRequests |-> ""]
    /\ returned = [r \in HandlerRequests |-> [status |-> 0]]

\* a request of user u carrying session_id sid passes authentication, the
\* rate limit and the message check
Admit(r, u, sid) ==
    /\ spc[r] = "idle"
    /\ caller' = [caller EXCEPT ![r] = u]
    /\ sessionId' = [sessionId EXCEPT ![r] = sid]
    /\ spc' = [spc EXCEPT ![r] = "session"]
    /\ UNCHANGED <<sessionsTable, messagesTable, sessionOf, returned>>
    /\ UNCHANGED <<rlvars, reqvars, gqvars, toolvars, clientvars>>

\* "Create or reuse chat session"
CreateOrReuseSession(r, createOk) ==
    /\ spc[r] = "session"
    /\ IF sessionId[r] # ""
         THEN /\ sessionOf' = [sessionOf EXCEPT ![r] = sessionId[r]]
              /\ spc' = [spc EXCEPT ![r] = "userlog"]
              /\ UNCHANGED <<sessionsTable, returned>>
         ELSE IF ~createOk
         THEN /\ returned' = [returned EXCEPT ![r] = [status |-> 500]]
              /\ spc' = [spc EXCEPT ![r] = "done"]
              /\ UNCHANGED <<sessionsTable, sessionOf>>
         ELSE /\ sessionsTable' = sessionsTable \cup
                    {[id |-> NewSessionId(r), user_id |-> caller[r], touchedBy |-> {}]}
              /\ sessionOf' = [sessionOf EXCEPT ![r] = NewSessionId(r)]
              /\ spc' = [spc EXCEPT ![r] = "userlog"]
              /\ UNCHANGED returned
    /\ UNCHANGED <<messagesTable, caller, sessionId>>
    /\ UNCHANGED <<rlvars, reqvars, gqvars, toolvars, clientvars>>

\* .from("chat_messages").insert(...): an error is only written to the console
InsertMessage(role, r, ok) ==
    IF ok /\ SessionExists(sessionOf[r])
      THEN Append(messagesTable, [session_id |-> sessionOf[r], role |-> role, request |-> r])
      ELSE messagesTable

\* "Log user message"
LogUserMessage(r, ok) ==
    /\ spc[r] = "userlog"
    /\ messagesTable' = InsertMessage("user", r, ok)
    /\ spc' = [spc EXCEPT ![r] = "agent"]
    /\ UNCHANGED <<sessionsTable, caller, sessionId, sessionOf, returned>>
    /\ UNCHANGED <<rlvars, reqvars, gqvars, toolvars, clientvars>>

\* the agent loop ends with final content, at the iteration cap, or by an
\* exception that the outer catch answers
AgentLoop(r, outcome) ==
    /\ spc[r] = "agent"
    /\ spc' = [spc EXCEPT ![r] = CASE outcome = "reply" -> "assistantlog"
                                   [] outcome = "cap" -> "caplog"
                                   [] OTHER -> "done"]
    /\ returned' = IF outcome \in {"reply", "cap"} THEN returned
                   ELSE [returned EXCEPT ![r] = [status |-> 500]]
    /\ UNCHANGED <<sessionsTable, messagesTable, caller, sessionId, sessionOf>>
    /\ UNCHANGED <<rlvars, reqvars, gqvars, toolvars, clientvars>>

\* "Log assistant message": before the session update, or before the
\* response of the iteration cap
LogAssistantMessage(r, ok) ==
    /\ spc[r] \in {"assistantlog", "caplog"}
    /\ messagesTable' = InsertMessage("assistant", r, ok)
    /\ IF spc[r] = "assistantlog"
         THEN /\ spc' = [spc EXCEPT ![r] = "touch"]
              /\ UNCHANGED returned
         ELSE /\ spc' = [spc EXCEPT ![r] = "done"]
              /\ returned' = [returned EXCEPT ![r] =
                                 [status |-> 200, session_id |-> sessionOf[r]]]
    /\ UNCHANGED <<sessionsTable, caller, sessionId, sessionOf>>
    /\ UNCHANGED <<rlvars, reqvars, gqvars, toolvars, clientvars>>

\* "Update session timestamp", then the response
TouchSession(r, ok) ==
    /\ spc[r] = "touch"
    /\ sessionsTable' =
          IF ok THEN {IF row.id = sessionOf[r]
                        THEN [row EXCEPT !.touchedBy = @ \cup {caller[r]}]
                        ELSE row : row \in sessionsTable}
          ELSE sessionsTable
    /\ returned' = [returned EXCEPT ![r] = [status |-> 200, session_id |-> sessionOf[r]]]
    /\ spc' = [spc EXCEPT ![r] = "done"]
    /\ UNCHANGED <<messagesTable, caller, sessionId, sessionOf>>
    /\ UNCHANGED <<rlvars, reqvars, gqvars, toolvars, clientvars>>

NextSessions ==
    \/ \E r \in HandlerRequests, u \in Users, sid \in SuppliedSessionIds : Admit(r, u, sid)
    \/ \E r \in HandlerRequests, createOk \in BOOLEAN : CreateOrReuseSession(r, createOk)
    \/ \E r \in HandlerRequests, ok \in BOOLEAN : LogUserMessage(r, ok)
    \/ \E r \in HandlerRequests, outcome \in {"reply", "cap", "error"} : AgentLoop(r, outcome)
    \/ \E r \in HandlerRequests, ok \in BOOLEAN : LogAssistantMessage(r, ok)
    \/ \E r \in HandlerRequests, ok \in BOOLEAN : TouchSession(r, ok)

SpecSessions == InitSessions /\ [][NextSessions]_vars

(***************************************************************************)
(* Properties of sessions and of the message log (checked under            *)
(* SpecSessions)                                                           *)
(***************************************************************************)
\* the session exists and belongs to the identity
OwnedBy(sid, u) == \E row \in sessionsTable : row.id = sid /\ row.user_id = u

\* the request has created a session
Created(r) == SessionExists(NewSessionId(r))

\* C29: a request creates a session if and only if it carries no
\* session_id, and that session belongs to the caller; every message logged
\* and every session touched by a request belongs to a session owned by the
\* requesting identity; the session_id returned names an existing session
\* owned by that identity, also when the caller supplied it
C29_SessionOwnership ==
    /\ \A r \in HandlerRequests :
          /\ Created(r) => sessionId[r] = "" /\ OwnedBy(NewSessionId(r), caller[r])
          /\ (returned[r].status = 200 /\ sessionId[r] = "") => Created(r)
          /\ returned[r].status = 200 => OwnedBy(returned[r].session_id, caller[r])
    /\ \A n \in 1..Len(messagesTable) :
          OwnedBy(messagesTable[n].session_id, caller[messagesTable[n].request])
    /\ \A row \in sessionsTable : row.touchedBy \subseteq {row.user_id}

\* the messages of a session, in insertion order
SessionLog(sid) == SelectSeq(messagesTable, LAMBDA m : m.session_id = sid)

\* C30: in the log of every session, each assistant message comes directly
\* after the user message of the same request, also when requests carrying
\* the same session_id run side by side
C30_RepliesInOrder ==
    \A row \in sessionsTable :
        LET log == SessionLog(row.id) IN
        \A n \in 1..Len(log) :
            log[n].role = "assistant" =>
                /\ n > 1
                /\ log[n - 1].role = "user"
                /\ log[n - 1].request = log[n].request

(***************************************************************************)
(* The first context of a request: the handler's steps up to the first     *)
(* model round-trip, on histories of many lengths                          *)
(***************************************************************************)
\* the longest history a caller sends
MaxHistoryLen == 40

\* a history of len entries; a mixed one carries system and tool entries
\* between the user and assistant entries
HistoryOfLength(len, mixed) ==
    [n \in 1..len |->
        [role |-> IF mixed /\ n % 5 = 0 THEN "system"
                  ELSE IF mixed /\ n % 7 = 0 THEN "tool"
                  ELSE IF n % 2 = 1 THEN "user" ELSE "assistant",
         content |-> <<ToString(n)>>,
         name |-> "caller"]]

LongHistories ==
    {HistoryOfLength(len, mixed) :
        len \in {0, MAX_HISTORY_MESSAGES, MAX_HISTORY_MESSAGES + 1, 30, MaxHistoryLen},
        mixed \in BOOLEAN}

\* authenticated requests with a message and such a history
ContextRequests ==
    {[jwt |-> ValidJwt,
      body |-> [parses |-> TRUE, message |-> <<" ">> \o message \o <<" ">>,
                history |-> h, session_id |-> sid]] :
        h \in LongHistories, sid \in {"", currentSessionId}}

NextContext ==
    \/ \E req \in ContextRequests : ReceiveRequest(req)
    \/ Authenticate
    \/ \E rpcOk \in BOOLEAN, latency \in 0..MaxLatency : CheckRateLimit(rpcOk, latency)
    \/ ParseRequest
    \/ \E createOk \in BOOLEAN : ResolveSession(createOk)
    \/ \E logOk \in BOOLEAN : BeginTurn(logOk)

SpecContext == InitRequest /\ [][NextContext]_vars

\* the entries of the caller's history with a user or assistant role
KeptIndexes == {n \in 1..Len(history) : history[n].role \in {"user", "assistant"}}

\* the entry of the context at position k of H (the system prompt comes first)
ContextEntry(k) == agentMessages[k + 1]

\* the number of entries of H
ContextHistoryLen == Len(agentMessages) - 2

\* the position in the caller's history of the k-th entry of H: the
\* ContextHistoryLen last kept entries, in their order
SourceIndex(k) ==
    CHOOSE n \in KeptIndexes :
        Cardinality({m \in KeptIndexes : m > n}) = ContextHistoryLen - k

\* C32: the context of the first model round-trip is the system prompt, then
\* H, then the new user turn, where H is the last 24 entries, in their order,
\* of the caller's history without the entries whose role is not user or
\* assistant; H has at most 24 entries and no system or tool entry
C32_FirstContext ==
    (pc = "model" /\ modelCalls = 0) =>
        /\ Len(agentMessages) >= 2
        /\ agentMessages[1] = [role |-> "system", content |-> systemPrompt]
        /\ agentMessages[Len(agentMessages)] = [role |-> "user", content |-> message]
        /\ ContextHistoryLen = Min(24, Cardinality(KeptIndexes))
        /\ \A k \in 1..ContextHistoryLen :
              /\ ContextEntry(k).role = history[SourceIndex(k)].role
              /\ ContextEntry(k).content = history[SourceIndex(k)].content
              /\ ContextEntry(k).role \in {"user", "assistant"}

\* a history with system and tool entries and more than 24 others was cut
C32_Witness ==
    /\ pc = "model"
    /\ modelCalls = 0
    /\ ContextHistoryLen = 24
    /\ Cardinality(KeptIndexes) > 24
    /\ \E n \in 1..Len(history) : history[n].role = "system"
    /\ \E n \in 1..Len(history) : history[n].role = "tool"

\* ---- C33: argument text of a tool call ----
\* the last response of the model carried tool calls
LastResponseHadToolCalls == modelCalls > 0 /\ TakesToolBranch(assistantMsg)

\* the entry of toolsUsedInResponse of the n-th call of the last response
UsedEntryOf(n) ==
    toolsUsedInResponse[Len(toolsUsedInResponse) - Len(assistantMsg.tool_calls) + n]

\* C33: a tool call whose argument text does not parse as JSON runs with an
\* empty argument object, and no argument text (unparseable, empty, or JSON
\* that is not an object, such as null) makes the request fail with an
\* exception
C33_ArgumentTextHarmless ==
    LastResponseHadToolCalls =>
        /\ response # InternalError
        /\ \A n \in 1..Len(assistantMsg.tool_calls) :
              assistantMsg.tool_calls[n].arguments.kind = "unparseable"
                 => UsedEntryOf(n).args = EmptyObject

\* ---- C36: the turns a tool-call response adds to the context ----
\* this step is a model round-trip answered with at least one tool call
ToolCallRoundTrip ==
    /\ pc = "model"
    /\ modelCalls' = modelCalls + 1
    /\ TakesToolBranch(assistantMsg')
    /\ Len(assistantMsg'.tool_calls) >= 1

\* the turn added for the k-th call of the response
AddedTurn(k) == agentMessages'[Len(agentMessages) + 1 + k]

\* C36: a model response with n >= 1 tool calls makes the context grow by
\* exactly n + 1 turns: the assistant tool-call turn, then one tool-result
\* turn per call in the order of the calls, each with the id and name of its
\* call; an unknown tool name gives an {error} result, and the iteration is
\* consumed
C36_ContextGrowth ==
    [][ToolCallRoundTrip =>
          LET tcs == assistantMsg'.tool_calls IN
          /\ Len(agentMessages') = Len(agentMessages) + Len(tcs) + 1
          /\ SubSeq(agentMessages', 1, Len(agentMessages)) = agentMessages
          /\ agentMessages'[Len(agentMessages) + 1] = assistantMsg'
          /\ \A k \in 1..Len(tcs) :
                /\ AddedTurn(k).role = "tool"
                /\ AddedTurn(k).tool_call_id = tcs[k].id
                /\ AddedTurn(k).name = tcs[k].name
                /\ tcs[k].name \notin KnownTools
                     => "error" \in DOMAIN AddedTurn(k).content
          /\ iter' = iter + 1]_vars

(***************************************************************************)
(* Admission: authenticate, rate-limit check, parse body, for a caller     *)
(* whose window may be fresh, partly used, used up or expired              *)
(***************************************************************************)
\* the caller's counter row of a window opened at 0 with cnt calls counted
CounterRow(u, cnt) == [user_id |-> u, window_start |-> 0, count |-> cnt, updated_at |-> 0]

InitAdmission ==
    /\ p_window_seconds = 2
    /\ p_max_count = 2
    /\ clock \in 0..(2 * p_window_seconds - 1)
    /\ \E mine \in {{}} \cup {{CounterRow("u1", cnt)} : cnt \in 1..p_max_count},
          others \in {{}, {CounterRow("u2", 1)}} :
         chat_rate_limits = mine \cup others
    /\ NoCallInProgress
    /\ HandlerAtRest
    /\ GroqAtRest
    /\ ToolsAtRest
    /\ SessionsAtRest
    /\ ClientAtRest

NextAdmission ==
    \/ \E req \in Requests : ReceiveRequest(req)
    \/ Authenticate
    \/ \E rpcOk \in BOOLEAN, latency \in 0..MaxLatency : CheckRateLimit(rpcOk, latency)
    \/ ParseRequest
    \/ \E createOk \in BOOLEAN : ResolveSession(createOk)
    \/ \E logOk \in BOOLEAN : BeginTurn(logOk)
    \/ GroqChatFails
    \/ \E msg \in ModelMessages, logOk \in BOOLEAN, touchOk \in BOOLEAN :
         ModelReturnsFinal(msg, logOk, touchOk)

SpecAdmission == InitAdmission /\ [][NextAdmission]_vars

\* the calls of user u counted in the window that is open at time now
QuotaUsed(table, u, now) ==
    LET rows == {r \in table : r.user_id = u} IN
    IF rows = {} THEN 0
    ELSE LET r == CHOOSE x \in rows : TRUE
         IN IF now - r.window_start >= p_window_seconds THEN 0 ELSE r.count

RateLimitBackendError == [status |-> 500, message |-> "Rate limiting backend error"]

\* C38: admission runs in the order authenticate, rate-limit check, parse
\* body: an unauthenticated request is rejected without touching any
\* rate-limit counter; a request the limiter admits uses up one unit of the
\* caller's quota, also when it is then rejected for an empty message; a
\* failing rate-limit backend rejects the request with status 500 and no model
\* call
C38_AdmissionOrder ==
    [][/\ (pc # "idle" /\ request.jwt # ValidJwt)
            => (chat_rate_limits' = chat_rate_limits /\ rl' = NoResult
                /\ pc' = "done" /\ response'.status = 401)
       /\ (pc = "ratelimit" /\ pc' = "parse")
            => /\ rl'.allowed = TRUE
               /\ QuotaUsed(chat_rate_limits', "u1", clock)
                    = QuotaUsed(chat_rate_limits, "u1", clock) + 1
               /\ \A u \in Users \ {"u1"} :
                     QuotaUsed(chat_rate_limits', u, clock)
                       = QuotaUsed(chat_rate_limits, u, clock)
       /\ pc = "parse"
            => (chat_rate_limits' = chat_rate_limits /\ rl.allowed = TRUE)
       /\ (pc' = "done" /\ response'.status = 400)
            => (pc = "parse" /\ QuotaUsed(chat_rate_limits', "u1", clock) >= 1)
       /\ (pc = "ratelimit" /\ pc' = "done" /\ rl' = NoResult)
            => response' = RateLimitBackendError
       /\ response' = RateLimitBackendError => (pc' = "done" /\ modelCalls' = 0)
      ]_vars

\* an admitted request with an empty message was answered 400 after it had
\* used up the second unit of the caller's quota
C38_Witness ==
    /\ pc = "done"
    /\ response.status = 400
    /\ rl.allowed = TRUE
    /\ QuotaUsed(chat_rate_limits, "u1", clock) = 2

(***************************************************************************)
(* One admitted request with its groqChat calls: the agent loop calls      *)
(* groqChat with agentMessages, and each call rotates keys and retries     *)
(***************************************************************************)
AgentRequest ==
    [jwt |-> ValidJwt,
     body |-> [parses |-> TRUE, message |-> message, history |-> <<>>, session_id |-> ""]]

\* what the model answers in this specification: one tool call, a tool call
\* with null arguments, or text
AgentToolMessages ==
    {[role |-> "assistant", content |-> <<>>, tool_calls |-> tcs] :
        tcs \in {<<TcSearch>>, <<TcSearchNullArgs>>}}

\* what the provider answers in this specification: a completion, a rate
\* limit, a tool-call validation failure, or no answer (fetch rejects)
AgentFetchOutcomes ==
    {out \in FetchOutcomes :
        out.threw \/ out.body \in {"completion", "too many requests", "tool_use_failed"}}

AgentFinalMessage == [role |-> "assistant", content |-> <<"o", "k">>]

InitAgent ==
    /\ p_window_seconds = 2
    /\ p_max_count = 1
    /\ clock = 0
    /\ chat_rate_limits = {}
    /\ NoCallInProgress
    /\ HandlerAtRest
    /\ ToolsAtRest
    /\ SessionsAtRest
    /\ ClientAtRest
    /\ GROQ_API_KEYS \in {[n \in 1..k |-> n] : k \in 0..MaxKeys}
    /\ gpc = "idle"
    /\ keyIndex = 0
    /\ repairAttemptedForThisKey = FALSE
    /\ lastErr = NoError
    /\ fetches = <<>>
    /\ groqResult = [threw |-> FALSE, completion |-> NoError]
    /\ payload = [messages |-> <<>>]
    /\ providerRequests = 0

\* the result of the groqChat call made with the current context is awaited
\* or has not been used yet
CallOutstanding == pc = "model" /\ payload.messages = agentMessages

\* await groqChat({ ..., messages: agentMessages, ... }) at the top of an
\* iteration: a new call with its own locals
CallGroqChat ==
    /\ pc = "model"
    /\ gpc \in {"idle", "returned"}
    /\ ~CallOutstanding
    /\ payload' = [messages |-> agentMessages]
    /\ gpc' = "idle"
    /\ keyIndex' = 0
    /\ repairAttemptedForThisKey' = FALSE
    /\ lastErr' = NoError
    /\ fetches' = <<>>
    /\ groqResult' = [threw |-> FALSE, completion |-> NoError]
    /\ UNCHANGED <<GROQ_API_KEYS, providerRequests>>
    /\ UNCHANGED <<rlvars, reqvars, toolvars, sessvars, clientvars>>

\* groqChat runs for the call that is outstanding
GroqChatEntered == CallOutstanding /\ GroqChatStart

\* the call returned a completion with tool calls
CompletionHasToolCalls(msg) ==
    /\ gpc = "returned"
    /\ CallOutstanding
    /\ ModelReturnsToolCalls(msg, [n \in 1..Len(msg.tool_calls) |-> DbWorks])

\* the call returned a completion with final content
CompletionIsFinal ==
    /\ gpc = "returned"
    /\ CallOutstanding
    /\ ModelReturnsFinal(AgentFinalMessage, TRUE, TRUE)

\* the call threw
GroqChatThrew == gpc = "thrown" /\ GroqChatFails

NextAgent ==
    \/ ReceiveRequest(AgentRequest)
    \/ Authenticate
    \/ CheckRateLimit(TRUE, 0)
    \/ ParseRequest
    \/ ResolveSession(TRUE)
    \/ BeginTurn(TRUE)
    \/ CallGroqChat
    \/ GroqChatEntered
    \/ \E out \in AgentFetchOutcomes : FirstFetch(out)
    \/ \E out \in AgentFetchOutcomes : RetryFetch(out)
    \/ \E msg \in AgentToolMessages : CompletionHasToolCalls(msg)
    \/ CompletionIsFinal
    \/ GroqChatThrew
    \/ MaxIterationsReached(TRUE)

SpecAgent == InitAgent /\ [][NextAgent]_vars

\* every call the handler or groqChat awaits returns
SpecAgentLive == SpecAgent /\ WF_vars(NextAgent)

\* ---- C37: the schema-repair instruction ----
\* no turn of a conversation is the corrective system message
NoRepairHint(msgs) == \A n \in 1..Len(msgs) : msgs[n] # repairMsg

\* C37: the schema-repair instruction is sent with the one retry that
\* triggered it and nowhere else: groqChat never modifies the conversation it
\* was given, so the first request of every key carries the conversation as
\* given, without the instruction, and the agent context of later iterations
\* never contains it
C37_RepairHintConfined ==
    /\ NoRepairHint(agentMessages)
    /\ NoRepairHint(payload.messages)
    /\ CallOutstanding => payload.messages = agentMessages
    /\ \A n \in 1..Len(fetches) :
          IF fetches[n].repaired
            THEN fetches[n].messages = Append(payload.messages, repairMsg)
            ELSE fetches[n].messages = payload.messages

\* a later iteration after a repaired one: the only key was sent a second,
\* repaired request during the first call, and the first request of the
\* second call has been sent
C37_Witness ==
    /\ Len(GROQ_API_KEYS) = 1
    /\ iter = 1
    /\ providerRequests = 3
    /\ Len(fetches) = 1
    /\ ~fetches[1].repaired
    /\ Len(fetches[1].messages) = Len(Conversation) + 2

\* ---- C35: bounded upstream work ----
\* groqChat calls made for the request, the outstanding one included
RoundTrips == modelCalls + (IF CallOutstanding /\ gpc # "idle" THEN 1 ELSE 0)

\* the requests of the current call sent with key k
RequestsWithKey(k) == Cardinality({n \in 1..Len(fetches) : fetches[n].key = k})

UpstreamWorkBounded ==
    /\ RoundTrips <= 5
    /\ \A k \in 1..Len(GROQ_API_KEYS) : RequestsWithKey(GROQ_API_KEYS[k]) <= 2
    /\ providerRequests <= 5 * 2 * Len(GROQ_API_KEYS)
    /\ Len(GROQ_API_KEYS) = 0 =>
          /\ providerRequests = 0
          /\ pc = "done" => response.status = 500

\* C35: an admitted request ends with a response after bounded upstream
\* work: at most 5 model round-trips, each sending at most 2 requests per
\* configured key, so at most 5 * 2 * K requests for K keys, when every call
\* returns; with no key configured it fails without sending any request
C35_BoundedUpstreamWork ==
    /\ []UpstreamWorkBounded
    /\ <>(pc = "done" /\ response.status # 0)

\* five round-trips, each with two requests to each of two keys, ended with
\* the canned reply
C35_Witness ==
    /\ Len(GROQ_API_KEYS) = 2
    /\ modelCalls = 5
    /\ providerRequests = 5 * 2 * 2
    /\ pc = "done"
    /\ response.status = 200

(***************************************************************************)
(* get_price_range: three catalog queries awaited together, while the      *)
(* catalog is being edited                                                 *)
(***************************************************************************)
\* products the catalog may hold: two ids, two prices, two categories
RangeProducts ==
    {[id |-> i, price |-> p, category |-> c] :
        i \in {"p5", "p6"}, p \in {30000, 45000}, c \in {"laptop", "phone"}}

RangeArgs == {EmptyObject, JObj([category |-> JStr("laptop")])}

InitPriceRange ==
    /\ p_window_seconds = 1
    /\ p_max_count = 1
    /\ RateLimiterAtRest
    /\ HandlerAtRest
    /\ GroqAtRest
    /\ SessionsAtRest
    /\ ClientAtRest
    /\ productsTable \in {<<>>,
                          <<[id |-> "p5", price |-> 30000, category |-> "laptop"]>>,
                          <<[id |-> "p5", price |-> 30000, category |-> "laptop"],
                            [id |-> "p6", price |-> 45000, category |-> "laptop"]>>}
    /\ tpc = "idle"
    /\ toolArgs = JNull
    /\ toolReturn = [threw |-> FALSE, tool |-> "none"]
    /\ catalogQueries = <<>>
    /\ expansions = <<>>

\* the rows a query with the category filter of args sees
RowsInCategory(args) ==
    SelectSeq(productsTable,
              LAMBDA r : CategoryOf(args) = "all" \/ r.category = CategoryOf(args))

\* the answers received so far to the query of the given kind
AnswersTo(kind) ==
    SelectSeq(catalogQueries, LAMBDA q : q.query = kind)

\* execGetPriceRange is entered: the three queries are built and sent
GetPriceRange(args) ==
    /\ tpc = "idle"
    /\ toolArgs' = args
    /\ tpc' = "range"
    /\ UNCHANGED <<productsTable, toolReturn, catalogQueries, expansions>>
    /\ UNCHANGED <<rlvars, reqvars, gqvars, sessvars, clientvars>>

\* one of the three queries is answered from the catalog as it is now
AnswerQuery(kind, dbOk) ==
    LET rows == RowsInCategory(toolArgs) IN
    /\ tpc = "range"
    /\ AnswersTo(kind) = <<>>
    /\ catalogQueries' =
          Append(catalogQueries,
                 [query |-> kind, category |-> CategoryOf(toolArgs), failed |-> ~dbOk,
                  data |-> IF ~dbOk \/ rows = <<>> THEN <<>>
                           ELSE IF kind = "min" THEN <<MinPrice(rows)>>
                           ELSE IF kind = "max" THEN <<MaxPrice(rows)>>
                           ELSE <<>>,
                  count |-> IF dbOk /\ kind = "count" THEN <<Len(rows)>> ELSE <<>>])
    /\ UNCHANGED <<productsTable, tpc, toolArgs, toolReturn, expansions>>
    /\ UNCHANGED <<rlvars, reqvars, gqvars, sessvars, clientvars>>

\* Promise.all has resolved: the result is built from the three answers
PriceRangeReturns ==
    LET minRes == AnswersTo("min")[1]
        maxRes == AnswersTo("max")[1]
        countRes == AnswersTo("count")[1]
    IN
    /\ tpc = "range"
    /\ \A kind \in {"min", "max", "count"} : AnswersTo(kind) # <<>>
    /\ toolReturn' =
          [threw |-> FALSE, tool |-> "get_price_range",
           result |->
             IF minRes.failed \/ maxRes.failed
               THEN [error |-> "catalog query failed"]
               ELSE [min_price |-> IF minRes.data = <<>> THEN JNull
                                   ELSE JNum(minRes.data[1]),
                     max_price |-> IF maxRes.data = <<>> THEN JNull
                                   ELSE JNum(maxRes.data[1]),
                     total_count |-> IF countRes.count = <<>> THEN 0
                                     ELSE countRes.count[1],
                     category |-> CategoryOf(toolArgs)]]
    /\ tpc' = "done"
    /\ UNCHANGED <<productsTable, toolArgs, catalogQueries, expansions>>
    /\ UNCHANGED <<rlvars, reqvars, gqvars, sessvars, clientvars>>

\* the ids of the products in the catalog
TableIds == {productsTable[n].id : n \in 1..Len(productsTable)}

\* an administrator adds a product
InsertProduct(row) ==
    /\ row.id \notin TableIds
    /\ productsTable' = Append(productsTable, row)
    /\ UNCHANGED <<tpc, toolArgs, toolReturn, catalogQueries, expansions>>
    /\ UNCHANGED <<rlvars, reqvars, gqvars, sessvars, clientvars>>

\* an administrator edits a product
UpdateProduct(row) ==
    /\ row.id \in TableIds
    /\ productsTable' = [n \in 1..Len(productsTable) |->
                            IF productsTable[n].id = row.id THEN row
                            ELSE productsTable[n]]
    /\ productsTable' # productsTable
    /\ UNCHANGED <<tpc, toolArgs, toolReturn, catalogQueries, expansions>>
    /\ UNCHANGED <<rlvars, reqvars, gqvars, sessvars, clientvars>>

\* an administrator removes a product
DeleteProduct(id) ==
    /\ id \in TableIds
    /\ productsTable' = SelectSeq(productsTable, LAMBDA r : r.id # id)
    /\ UNCHANGED <<tpc, toolArgs, toolReturn, catalogQueries, expansions>>
    /\ UNCHANGED <<rlvars, reqvars, gqvars, sessvars, clientvars>>

NextPriceRange ==
    \/ \E args \in RangeArgs : GetPriceRange(args)
    \/ \E kind \in {"min", "max", "count"}, dbOk \in BOOLEAN : AnswerQuery(kind, dbOk)
    \/ PriceRangeReturns
    \/ \E row \in RangeProducts : InsertProduct(row)
    \/ \E row \in RangeProducts : UpdateProduct(row)
    \/ \E id \in {"p5", "p6"} : DeleteProduct(id)

SpecPriceRange == InitPriceRange /\ [][NextPriceRange]_vars

\* C34: a get_price_range result describes one catalog state under one
\* filter: the three queries carry the same category predicate, min_price <=
\* max_price, and total_count = 0 exactly when min_price and max_price are
\* null, also when catalog writes run between the queries or a query fails
C34_PriceRangeConsistent ==
    (Returned("get_price_range") /\ "error" \notin DOMAIN toolReturn.result) =>
        LET r == toolReturn.result IN
        /\ \A n \in 1..Len(catalogQueries) : catalogQueries[n].category = r.category
        /\ (r.min_price # JNull /\ r.max_price # JNull) => r.min_price.v <= r.max_price.v
        /\ r.total_count = 0 <=> (r.min_price = JNull /\ r.max_price = JNull)

(***************************************************************************)
(* js/cart.js: the cart kept in localStorage                               *)
(***************************************************************************)
\* quantities above this are not explored (a product without stock has no
\* limit of its own)
MaxQuantity == 3

\* product.stock: <<n>> for n units, <<>> when the product has no stock field
NoStock == <<>>

\* the products of the shop, each with its fixed stock
CartProducts ==
    {[id |-> 1, stock |-> <<0>>], [id |-> 2, stock |-> <<1>>],
     [id |-> 3, stock |-> <<2>>], [id |-> 4, stock |-> NoStock]}

\* ids the cart functions are called with: those of the products and one of
\* no product
CartIds == {product.id : product \in CartProducts} \cup {9}

\* quantity >= (stock ?? Infinity)
AtStockLimit(quantity, stock) == stock # NoStock /\ quantity >= stock[1]

\* cart.find((item) => item.id === id): the position of the item, 0 if none
FindItem(items, id) ==
    IF \E n \in 1..Len(items) : items[n].id = id
      THEN CHOOSE n \in 1..Len(items) : items[n].id = id
      ELSE 0

\* cart.filter((item) => item.id !== id)
WithoutItem(items, id) == SelectSeq(items, LAMBDA item : item.id # id)

InitCart ==
    /\ p_window_seconds = 1
    /\ p_max_count = 1
    /\ RateLimiterAtRest
    /\ HandlerAtRest
    /\ GroqAtRest
    /\ ToolsAtRest
    /\ SessionsAtRest
    /\ ClientAtRest

\* mutant: an item in the cart is incremented without looking at the stock
addToCart_NoLimit(product) ==
    LET n == FindItem(cart, product.id) IN
    /\ IF n # 0
         THEN /\ cart[n].quantity < MaxQuantity
              /\ cart' = [cart EXCEPT ![n].quantity = @ + 1]
              /\ lastCall' = [op |-> "addToCart", id |-> product.id, result |-> "saved"]
         ELSE IF product.stock = <<0>>
         THEN /\ lastCall' = [op |-> "addToCart", id |-> product.id, result |-> "rejected"]
              /\ UNCHANGED cart
         ELSE /\ cart' = Append(cart, [id |-> product.id, stock |-> product.stock,
                                       quantity |-> 1])
              /\ lastCall' = [op |-> "addToCart", id |-> product.id, result |-> "saved"]
    /\ UNCHANGED chatvars
    /\ UNCHANGED <<rlvars, reqvars, gqvars, toolvars, sessvars>>

\* addToCart(product)
addToCart(product) ==
    LET n == FindItem(cart, product.id) IN
    /\ IF n # 0
         THEN IF AtStockLimit(cart[n].quantity, product.stock)
                THEN /\ lastCall' = [op |-> "addToCart", id |-> product.id,
                                     result |-> "rejected"]
                     /\ UNCHANGED cart
                ELSE /\ cart[n].quantity < MaxQuantity
                     /\ cart' = [cart EXCEPT ![n].quantity = @ + 1]
                     /\ lastCall' = [op |-> "addToCart", id |-> product.id,
                                     result |-> "saved"]
         ELSE IF product.stock = <<0>>
         THEN /\ lastCall' = [op |-> "addToCart", id |-> product.id, result |-> "rejected"]
              /\ UNCHANGED cart
         ELSE /\ cart' = Append(cart, [id |-> product.id, stock |-> product.stock,
                                       quantity |-> 1])
              /\ lastCall' = [op |-> "addToCart", id |-> product.id, result |-> "saved"]
    /\ UNCHANGED chatvars
    /\ UNCHANGED <<rlvars, reqvars, gqvars, toolvars, sessvars>>

\* removeFromCart(productId)
removeFromCart(productId) ==
    /\ cart' = WithoutItem(cart, productId)
    /\ lastCall' = [op |-> "removeFromCart", id |-> productId, result |-> "saved"]
    /\ UNCHANGED chatvars
    /\ UNCHANGED <<rlvars, reqvars, gqvars, toolvars, sessvars>>

\* updateQuantity(productId, delta), delta 1 or -1
updateQuantity(productId, delta) ==
    LET n == FindItem(cart, productId) IN
    /\ IF n = 0
         THEN /\ lastCall' = [op |-> "updateQuantity", id |-> productId, delta |-> delta,
                              result |-> "no item"]
              /\ UNCHANGED cart
         ELSE IF delta > 0 /\ AtStockLimit(cart[n].quantity, cart[n].stock)
         THEN /\ lastCall' = [op |-> "updateQuantity", id |-> productId, delta |-> delta,
                              result |-> "rejected"]
              /\ UNCHANGED cart
         ELSE /\ cart[n].quantity + delta <= MaxQuantity
              /\ cart' = IF cart[n].quantity + delta <= 0
                           THEN WithoutItem(cart, productId)
                           ELSE [cart EXCEPT ![n].quantity = @ + delta]
              /\ lastCall' = [op |-> "updateQuantity", id |-> productId, delta |-> delta,
                              result |-> "saved"]
    /\ UNCHANGED chatvars
    /\ UNCHANGED <<rlvars, reqvars, gqvars, toolvars, sessvars>>

NextCart ==
    \/ \E product \in CartProducts : addToCart(product)
    \/ \E productId \in CartIds : removeFromCart(productId)
    \/ \E productId \in CartIds, delta \in {1, -1} : updateQuantity(productId, delta)

SpecCart == InitCart /\ [][NextCart]_vars

\* the stock of the product with the given id
StockOf(id) == (CHOOSE product \in CartProducts : product.id = id).stock

\* every item is a product of the shop, once, with a quantity between 1 and
\* its stock
CartWithinStock ==
    \A n \in 1..Len(cart) :
        /\ cart[n].id \in {product.id : product \in CartProducts}
        /\ \A m \in 1..Len(cart) : cart[m].id = cart[n].id => m = n
        /\ cart[n].quantity >= 1
        /\ StockOf(cart[n].id) # NoStock => cart[n].quantity <= StockOf(cart[n].id)[1]
        /\ StockOf(cart[n].id) # <<0>>

\* the quantity of the product in a cart, 0 when it is not there
QuantityIn(items, id) ==
    IF FindItem(items, id) = 0 THEN 0 ELSE items[FindItem(items, id)].quantity

\* C31: with a fixed stock per product, after any sequence of addToCart,
\* updateQuantity(+1 / -1) and removeFromCart calls every item of the cart has
\* 1 <= quantity <= stock; an item whose quantity would drop to 0 is removed,
\* a product with stock 0 is never added, and a rejected add or increment
\* leaves the stored cart unchanged
C31_CartStockEnforced ==
    /\ []CartWithinStock
    /\ [][/\ lastCall'.result = "rejected" => cart' = cart
          /\ (/\ lastCall'.op = "updateQuantity"
              /\ lastCall'.delta = -1
              /\ QuantityIn(cart, lastCall'.id) = 1)
                => FindItem(cart', lastCall'.id) = 0]_vars

\* two units of the product with stock 2 are in the cart and a third was
\* refused
C31_Witness ==
    /\ QuantityIn(cart, 3) = 2
    /\ lastCall = [op |-> "addToCart", id |-> 3, result |-> "rejected"]

(***************************************************************************)
(* js/chatbot.js: the chat widget, its send button and its input           *)
(***************************************************************************)
\* texts the user types
MaxMessages == 3

\* what the fetch of a message ends with: a reply, a rejection (401, 429),
\* another error status, or a network failure
ChatOutcomes == {"reply", "401", "429", "error", "network"}

InitWidget ==
    /\ p_window_seconds = 1
    /\ p_max_count = 1
    /\ RateLimiterAtRest
    /\ HandlerAtRest
    /\ GroqAtRest
    /\ ToolsAtRest
    /\ SessionsAtRest
    /\ ClientAtRest

\* history.push({ role, content }); saveHistory(history.slice(-24))
addToHistory(h, role, content) ==
    LET pushed == Append(h, [role |-> role, content |-> content])
    IN IF Len(pushed) <= MAX_HISTORY_MESSAGES THEN pushed
       ELSE SubSeq(pushed, Len(pushed) - MAX_HISTORY_MESSAGES + 1, Len(pushed))

\* the user types a text into the input
TypeText ==
    /\ typed < MaxMessages
    /\ typed' = typed + 1
    /\ inputValue' = typed + 1
    /\ UNCHANGED <<sendBtnDisabled, inFlight, chatHistory>>
    /\ UNCHANGED cartvars
    /\ UNCHANGED <<rlvars, reqvars, gqvars, toolvars, sessvars>>

\* sendMessage() up to its await: nothing happens for an empty input or
\* without a token; otherwise the input is cleared, the text goes to the
\* history, the button is disabled and the request is sent
sendMessage(hasToken) ==
    /\ IF inputValue = 0 \/ ~hasToken
         THEN UNCHANGED <<inputValue, sendBtnDisabled, inFlight, chatHistory>>
         ELSE /\ inputValue' = 0
              /\ chatHistory' = addToHistory(chatHistory, "user", inputValue)
              /\ sendBtnDisabled' = TRUE
              /\ inFlight' = inFlight \cup {inputValue}
    /\ UNCHANGED typed
    /\ UNCHANGED cartvars
    /\ UNCHANGED <<rlvars, reqvars, gqvars, toolvars, sessvars>>

\* sendBtn "click" listener; a disabled button receives no click
ClickSend(hasToken) ==
    /\ ~sendBtnDisabled
    /\ sendMessage(hasToken)

\* input "keydown" listener: Enter without Shift calls sendMessage(); the
\* input is not disabled while a request is awaited
KeyDown(key, shiftKey, hasToken) ==
    IF key = "Enter" /\ ~shiftKey
      THEN sendMessage(hasToken)
      ELSE UNCHANGED vars

\* the fetch of message n settles and sendMessage runs to its end: a reply
\* goes to the history; finally the button is enabled
ResponseArrives(n, outcome) ==
    /\ n \in inFlight
    /\ inFlight' = inFlight \ {n}
    /\ chatHistory' = IF outcome = "reply"
                        THEN addToHistory(chatHistory, "assistant", n)
                        ELSE chatHistory
    /\ sendBtnDisabled' = FALSE
    /\ UNCHANGED <<inputValue, typed>>
    /\ UNCHANGED cartvars
    /\ UNCHANGED <<rlvars, reqvars, gqvars, toolvars, sessvars>>

NextWidget ==
    \/ TypeText
    \/ \E hasToken \in BOOLEAN : ClickSend(hasToken)
    \/ \E key \in {"Enter", "a"}, shiftKey \in BOOLEAN, hasToken \in BOOLEAN :
         KeyDown(key, shiftKey, hasToken)
    \/ \E n \in 1..MaxMessages, outcome \in ChatOutcomes : ResponseArrives(n, outcome)

SpecWidget == InitWidget /\ [][NextWidget]_vars

\* the messages whose replies are in the history, in the order of the replies
RepliesInHistory == SelectSeq(chatHistory, LAMBDA m : m.role = "assistant")

\* C39: the widget has at most one request in flight: while a sendMessage
\* call awaits the response no user action (send button, Enter key) starts a
\* second one, so the replies enter the local history in the order in which
\* their messages were sent
C39_OneRequestInFlight ==
    /\ Cardinality(inFlight) <= 1
    /\ \A i, j \in 1..Len(RepliesInHistory) :
          i < j => RepliesInHistory[i].content < RepliesInHistory[j].content
====
